---- MODULE Spec2Model ----
(***************************************************************************)
(* Regex -> postfix -> Thompson NFA -> subset-construction DFA -> Hopcroft *)
(* minimal DFA, and the simulators, as implemented by the JavaScript       *)
(* sources.                                                                *)
(*                                                                         *)
(* JavaScript objects are modelled by reference.  Every State object lives *)
(* in `heap` and is named by its index there (its object identity); its    *)
(* `id` field is a separate number.  JavaScript Map and Set iterate in     *)
(* insertion order: where the code depends on that order the collection is *)
(* a sequence without repetitions, otherwise a set.                        *)
(***************************************************************************)
EXTENDS Integers, Sequences, FiniteSets, TLC

VARIABLES
    mode,        \* which entry point this run exercises
    pc,          \* position of the driver
    regex,       \* the infix regular expression (sequence of characters)
    postfix,     \* postfix expression handed to ThompsonNFA.buildNFA
    pos,         \* buildNFA's loop index i (0-based); calls made in an API run
    stack,       \* buildNFA's stack of Automaton fragments; the automata
                 \* an API run holds
    heap,        \* every State object allocated so far
    nfa,         \* Automaton returned by buildNFA
    dfa,         \* Automaton returned by convertToDFA / given to minimize
    det,         \* SubsetConstruction's fields and convertToDFA's locals
    hop,         \* HopcroftMinimization's fields and minimize's locals
    minDFA,      \* Automaton returned by minimize
    err,         \* the error a stage threw, or NoError
    sim,         \* a call of Automaton.accepts: its input, its locals, its steps
    opt          \* the Automatons SubsetConstruction.removeUnreachableStates returned

vars == <<mode, pc, regex, postfix, pos, stack, heap, nfa, dfa, det, hop, minDFA, err,
          sim, opt>>

-----------------------------------------------------------------------------
(* Bounds of the model *)

\* longest enumerated infix regex
MaxRegexLen == 4
\* longest enumerated postfix expression
MaxPostfixLen == 5
\* longest input word the automata are run on
MaxWordLen == 4
\* most states of a directly constructed DFA
MaxDfaStates == 3
\* most calls of the Automaton API in a free API run
MaxApiCalls == 4
\* most states of an automaton handed to a single entry point
MaxEntryStates == 2

-----------------------------------------------------------------------------
(* Generic helpers *)

Range(s) == {s[i] : i \in 1..Len(s)}

\* JavaScript Set.add on an insertion-ordered collection
SeqAdd(s, x) == IF x \in Range(s) THEN s ELSE Append(s, x)

RECURSIVE SeqAddAll(_, _)
SeqAddAll(s, t) == IF t = <<>> THEN s ELSE SeqAddAll(SeqAdd(s, Head(t)), Tail(t))

\* Array.prototype.sort((a, b) => a - b) on a list of numbers
RECURSIVE SortNums(_)
SortNums(s) ==
    IF s = <<>> THEN <<>>
    ELSE LET m == CHOOSE i \in 1..Len(s) : \A j \in 1..Len(s) : s[i] <= s[j]
         IN <<s[m]>> \o SortNums(SubSeq(s, 1, m - 1) \o SubSeq(s, m + 1, Len(s)))

\* some enumeration of a finite set (used only where the order is sorted away)
RECURSIVE SetToSeq(_)
SetToSeq(S) == IF S = {} THEN <<>>
               ELSE LET x == CHOOSE y \in S : TRUE IN <<x>> \o SetToSeq(S \ {x})

RECURSIVE Pow2(_)
Pow2(n) == IF n = 0 THEN 1 ELSE 2 * Pow2(n - 1)

\* all sequences over S of length at most n
RECURSIVE SeqsUpTo(_, _)
SeqsUpTo(S, n) ==
    IF n = 0 THEN {<<>>}
    ELSE LET R == SeqsUpTo(S, n - 1)
         IN R \cup {Append(r, x) : r \in {q \in R : Len(q) = n - 1}, x \in S}

-----------------------------------------------------------------------------
(* State.js *)

\* the epsilon marker 'ε'
epsilonSymbol == "ε"

\* the null reference
Null == 0

\* State constructor
NewState(id, isAccepting) ==
    [id |-> id, isAccepting |-> isAccepting,
     transitions |-> <<>>,            \* Map symbol -> Set<State>, insertion order
     epsilonTransitions |-> {},       \* Set<State>
     hasOrigin |-> FALSE,             \* whether originNFAIds was stamped
     originNFAIds |-> <<>>]

\* index of symbol in a transitions Map, 0 if absent
TransIndex(st, symbol) ==
    IF \E i \in 1..Len(st.transitions) : st.transitions[i].symbol = symbol
    THEN CHOOSE i \in 1..Len(st.transitions) : st.transitions[i].symbol = symbol
    ELSE 0

\* State.getTransitions: the target Set (in insertion order), empty when absent
getTransitions(st, symbol) ==
    LET i == TransIndex(st, symbol)
    IN IF i = 0 THEN <<>> ELSE st.transitions[i].targets

\* State.addTransition with a single target State
StateAddTransition(st, symbol, target) ==
    IF symbol = epsilonSymbol \/ symbol = ""
    THEN [st EXCEPT !.epsilonTransitions = @ \cup {target}]
    ELSE LET i == TransIndex(st, symbol)
         IN IF i = 0
            THEN [st EXCEPT !.transitions =
                      Append(@, [symbol |-> symbol, targets |-> <<target>>])]
            ELSE [st EXCEPT !.transitions[i].targets = SeqAdd(@, target)]

-----------------------------------------------------------------------------
(* Automaton.js *)

\* Automaton constructor
NewAutomaton(type) ==
    [type |-> type,
     states |-> <<>>,                 \* Map id -> State, insertion order
     alphabet |-> <<>>,               \* Set of symbols, insertion order
     startState |-> Null,
     acceptStates |-> {},             \* Set<State>
     stateCounter |-> 0,
     hasAcceptingNFAIds |-> FALSE,    \* whether _acceptingNFAIds was set
     acceptingNFAIds |-> {}]

\* Map.has / Map.get / Map.set on the states Map
StatesHas(A, id) == \E i \in 1..Len(A.states) : A.states[i].key = id

StatesSet(states, id, s) ==
    IF \E i \in 1..Len(states) : states[i].key = id
    THEN [i \in 1..Len(states) |->
             IF states[i].key = id THEN [key |-> id, value |-> s] ELSE states[i]]
    ELSE Append(states, [key |-> id, value |-> s])

\* Automaton.getState
getState(A, id) ==
    IF StatesHas(A, id)
    THEN (CHOOSE e \in Range(A.states) : e.key = id).value
    ELSE Null

\* Automaton.getAllStates as a set of State objects
StateObjects(A) == {A.states[i].value : i \in 1..Len(A.states)}

\* Automaton.createState: result is the new heap, the new automaton, the State
createState(h, A, isAccepting) ==
    LET s == Len(h) + 1
    IN [h |-> Append(h, NewState(A.stateCounter, isAccepting)),
        A |-> [A EXCEPT !.stateCounter = @ + 1,
                        !.states = StatesSet(@, A.stateCounter, s),
                        !.acceptStates = IF isAccepting THEN @ \cup {s} ELSE @],
        s |-> s]

\* Automaton.addState
addState(h, A, s) ==
    [A EXCEPT !.states = StatesSet(@, h[s].id, s),
              !.acceptStates = IF h[s].isAccepting THEN @ \cup {s} ELSE @]

\* Automaton.setStartState
setStartState(A, s) == [A EXCEPT !.startState = s]

\* Automaton.addAcceptState
addAcceptState(h, A, s) ==
    [h |-> [h EXCEPT ![s].isAccepting = TRUE],
     A |-> [A EXCEPT !.acceptStates = @ \cup {s}]]

\* faulty variant of Automaton.addTransition: the symbol enters the alphabet
\* without the test for the epsilon marker and the empty string
addTransitionUnguarded(h, A, from, symbol, to) ==
    [h |-> [h EXCEPT ![from] = StateAddTransition(@, symbol, to)],
     A |-> [A EXCEPT !.alphabet = SeqAdd(@, symbol)]]

\* Automaton.addTransition
addTransition(h, A, from, symbol, to) ==
    [h |-> [h EXCEPT ![from] = StateAddTransition(@, symbol, to)],
     A |-> IF symbol # epsilonSymbol /\ symbol # ""
           THEN [A EXCEPT !.alphabet = SeqAdd(@, symbol)]
           ELSE A]

\* Automaton.getAlphabet
getAlphabet(A) == A.alphabet

\* Automaton.epsilonClosure
RECURSIVE epsilonClosure(_, _)
epsilonClosure(h, states) ==
    LET more == states \cup UNION {h[s].epsilonTransitions : s \in states}
    IN IF more = states THEN states ELSE epsilonClosure(h, more)

\* the frontier simulateNFA moves to on one symbol (before the closure)
NFAMove(h, states, symbol) ==
    UNION {Range(getTransitions(h[s], symbol)) : s \in states}

\* simulateNFA's loop: the list of frontiers after 0, 1, ... consumed symbols;
\* it is shorter than Len(input) + 1 when the run got stuck
RECURSIVE NFARun(_, _, _)
NFARun(h, cur, input) ==
    IF input = <<>> THEN <<cur>>
    ELSE LET nextStates == NFAMove(h, cur, Head(input))
         IN IF nextStates = {} THEN <<cur>>
            ELSE <<cur>> \o NFARun(h, epsilonClosure(h, nextStates), Tail(input))

\* Automaton.simulateNFA(input).accepted
simulateNFA(h, A, input) ==
    LET run == NFARun(h, epsilonClosure(h, {A.startState}), input)
    IN /\ Len(run) = Len(input) + 1
       /\ \E s \in run[Len(run)] : h[s].isAccepting

\* simulateDFA's loop: the list of states after 0, 1, ... consumed symbols
RECURSIVE DFARun(_, _, _)
DFARun(h, cur, input) ==
    IF input = <<>> THEN <<cur>>
    ELSE LET nextStates == getTransitions(h[cur], Head(input))
         IN IF Len(nextStates) = 0 THEN <<cur>>
            ELSE <<cur>> \o DFARun(h, nextStates[1], Tail(input))

\* Automaton.simulateDFA(input).accepted
simulateDFA(h, A, input) ==
    LET run == DFARun(h, A.startState, input)
    IN /\ Len(run) = Len(input) + 1
       /\ h[run[Len(run)]].isAccepting

\* Automaton.accepts(input).accepted
accepts(h, A, input) ==
    IF A.type = "DFA" \/ A.type = "MinDFA"
    THEN simulateDFA(h, A, input)
    ELSE simulateNFA(h, A, input)

-----------------------------------------------------------------------------
(* thompsonNFA.js *)

\* faulty variant of ThompsonNFA.isOperator: '?' is taken for a symbol
ThompsonIsOperatorWithoutOptional(char) == char \in {"*", "+", "|", "."}

\* ThompsonNFA.isOperator
ThompsonIsOperator(char) == char \in {"*", "+", "?", "|", "."}

\* ThompsonNFA.copyStatesAndTransitions: the states loop
RECURSIVE CopyStates(_, _, _)
CopyStates(h, entries, target) ==
    IF entries = <<>> THEN target
    ELSE LET state == Head(entries).value
         IN CopyStates(h, Tail(entries),
                       IF ~StatesHas(target, h[state].id)
                       THEN addState(h, target, state)
                       ELSE target)

\* ThompsonNFA.copyStatesAndTransitions
copyStatesAndTransitions(h, source, target) ==
    LET copied == CopyStates(h, source.states, target)
    IN [copied EXCEPT !.alphabet = SeqAddAll(@, source.alphabet)]

\* the loop body shared by the operators: for each old accept state, clear its
\* flag, delete it from result.acceptStates and add an epsilon transition to
\* each State of `tos`
RECURSIVE DemoteAndLink(_, _, _, _)
DemoteAndLink(h, result, accs, tos) ==
    IF accs = <<>> THEN [h |-> h, A |-> result]
    ELSE LET acceptState == Head(accs)
             h1 == [h EXCEPT ![acceptState].isAccepting = FALSE]
             r1 == [result EXCEPT !.acceptStates = @ \ {acceptState}]
             t1 == addTransition(h1, r1, acceptState, epsilonSymbol, tos[1])
             t2 == IF Len(tos) = 2
                   THEN addTransition(t1.h, t1.A, acceptState, epsilonSymbol, tos[2])
                   ELSE t1
         IN DemoteAndLink(t2.h, t2.A, Tail(accs), tos)

RECURSIVE AddAcceptStates(_, _, _)
AddAcceptStates(h, result, accs) ==
    IF accs = <<>> THEN [h |-> h, A |-> result]
    ELSE LET r == addAcceptState(h, result, Head(accs))
         IN AddAcceptStates(r.h, r.A, Tail(accs))

\* ThompsonNFA.basicSymbol
basicSymbol(h, symbol) ==
    LET c1 == createState(h, NewAutomaton("NFA"), FALSE)
        c2 == createState(c1.h, c1.A, TRUE)
        n  == setStartState(c2.A, c1.s)
    IN IF symbol = epsilonSymbol
       THEN addTransition(c2.h, n, c1.s, epsilonSymbol, c2.s)
       ELSE addTransition(c2.h, n, c1.s, symbol, c2.s)

\* ThompsonNFA.concatenation
concatenation(h, nfa1, nfa2) ==
    LET r1 == copyStatesAndTransitions(h, nfa1, NewAutomaton("NFA"))
        r2 == copyStatesAndTransitions(h, nfa2, r1)
        r3 == setStartState(r2, nfa1.startState)
        l  == DemoteAndLink(h, r3, SetToSeq(nfa1.acceptStates), <<nfa2.startState>>)
    IN AddAcceptStates(l.h, l.A, SetToSeq(nfa2.acceptStates))

\* ThompsonNFA.alternation
alternation(h, nfa1, nfa2) ==
    LET c1 == createState(h, NewAutomaton("NFA"), FALSE)
        c2 == createState(c1.h, c1.A, TRUE)
        r0 == setStartState(c2.A, c1.s)
        r1 == copyStatesAndTransitions(c2.h, nfa1, r0)
        r2 == copyStatesAndTransitions(c2.h, nfa2, r1)
        t1 == addTransition(c2.h, r2, c1.s, epsilonSymbol, nfa1.startState)
        t2 == addTransition(t1.h, t1.A, c1.s, epsilonSymbol, nfa2.startState)
        l1 == DemoteAndLink(t2.h, t2.A, SetToSeq(nfa1.acceptStates), <<c2.s>>)
    IN DemoteAndLink(l1.h, l1.A, SetToSeq(nfa2.acceptStates), <<c2.s>>)

\* ThompsonNFA.kleeneStar
kleeneStar(h, a) ==
    LET c1 == createState(h, NewAutomaton("NFA"), FALSE)
        c2 == createState(c1.h, c1.A, TRUE)
        r0 == setStartState(c2.A, c1.s)
        r1 == copyStatesAndTransitions(c2.h, a, r0)
        t1 == addTransition(c2.h, r1, c1.s, epsilonSymbol, a.startState)
        t2 == addTransition(t1.h, t1.A, c1.s, epsilonSymbol, c2.s)
    IN DemoteAndLink(t2.h, t2.A, SetToSeq(a.acceptStates), <<c2.s, a.startState>>)

\* faulty variant of ThompsonNFA.oneOrMore: the construction of the star,
\* which also accepts zero repetitions
oneOrMoreAsStar(h, a) == kleeneStar(h, a)

\* ThompsonNFA.oneOrMore
oneOrMore(h, a) ==
    LET c1 == createState(h, NewAutomaton("NFA"), TRUE)
        r1 == copyStatesAndTransitions(c1.h, a, c1.A)
        r2 == setStartState(r1, a.startState)
    IN DemoteAndLink(c1.h, r2, SetToSeq(a.acceptStates), <<c1.s, a.startState>>)

\* ThompsonNFA.optional
optional(h, a) ==
    LET c1 == createState(h, NewAutomaton("NFA"), FALSE)
        c2 == createState(c1.h, c1.A, TRUE)
        r0 == setStartState(c2.A, c1.s)
        r1 == copyStatesAndTransitions(c2.h, a, r0)
        t1 == addTransition(c2.h, r1, c1.s, epsilonSymbol, a.startState)
        t2 == addTransition(t1.h, t1.A, c1.s, epsilonSymbol, c2.s)
    IN DemoteAndLink(t2.h, t2.A, SetToSeq(a.acceptStates), <<c2.s>>)

\* operands each operator of buildNFA's switch needs
Arity(symbol) == IF symbol \in {"*", "+", "?"} THEN 1 ELSE 2

\* one iteration of buildNFA's loop on a stack that has the operands:
\* the new heap and the new stack
BuildToken(h, stk, symbol) ==
    LET n == Len(stk)
    IN IF ThompsonIsOperator(symbol)
       THEN IF symbol = "*"
            THEN LET r == kleeneStar(h, stk[n])
                 IN [h |-> r.h, stack |-> Append(SubSeq(stk, 1, n - 1), r.A)]
            ELSE IF symbol = "+"
            THEN LET r == oneOrMore(h, stk[n])
                 IN [h |-> r.h, stack |-> Append(SubSeq(stk, 1, n - 1), r.A)]
            ELSE IF symbol = "?"
            THEN LET r == optional(h, stk[n])
                 IN [h |-> r.h, stack |-> Append(SubSeq(stk, 1, n - 1), r.A)]
            ELSE IF symbol = "|"
            THEN LET r == alternation(h, stk[n - 1], stk[n])
                 IN [h |-> r.h, stack |-> Append(SubSeq(stk, 1, n - 2), r.A)]
            ELSE LET r == concatenation(h, stk[n - 1], stk[n])
                 IN [h |-> r.h, stack |-> Append(SubSeq(stk, 1, n - 2), r.A)]
       ELSE LET r == basicSymbol(h, symbol)
            IN [h |-> r.h, stack |-> Append(stk, r.A)]

-----------------------------------------------------------------------------
(* shuntingYard.js; a string is the sequence of its characters *)

\* this.precedence
precedence(op) ==
    IF op = "|" THEN 1
    ELSE IF op = "." THEN 2
    ELSE IF op \in {"+", "*", "?"} THEN 3
    ELSE 0

leftAssociative == {"|", "."}
binaryOperators == {"|", "."}

\* ShuntingYard.isOperator
isOperator(char) == char \in {"|", ".", "+", "*", "?"}

\* ShuntingYard.isOperand
isOperand(char) == ~isOperator(char) /\ char # "(" /\ char # ")"

\* ShuntingYard.needsConcatenation
needsConcatenation(current, next) ==
    IF current \in binaryOperators \/ current = "(" THEN FALSE
    ELSE IF isOperator(next) \/ next = ")" THEN FALSE
    ELSE TRUE

\* ShuntingYard.preprocess: the loop from index i (1-based)
RECURSIVE PreprocessFrom(_, _)
PreprocessFrom(r, i) ==
    IF i > Len(r) THEN <<>>
    ELSE <<r[i]>>
         \o (IF i < Len(r) /\ needsConcatenation(r[i], r[i + 1]) THEN <<".">> ELSE <<>>)
         \o PreprocessFrom(r, i + 1)

\* ShuntingYard.preprocess
preprocess(r) == IF Len(r) = 0 THEN <<epsilonSymbol>> ELSE PreprocessFrom(r, 1)

\* ShuntingYard.hasHigherOrEqualPrecedence
hasHigherOrEqualPrecedence(op1, op2) ==
    \/ precedence(op1) > precedence(op2)
    \/ precedence(op1) = precedence(op2) /\ op1 \in leftAssociative

\* the inner while loop of the operator branch: pops into the output
RECURSIVE PopHigher(_, _, _)
PopHigher(output, ops, token) ==
    IF /\ Len(ops) > 0
       /\ isOperator(ops[Len(ops)])
       /\ hasHigherOrEqualPrecedence(ops[Len(ops)], token)
    THEN PopHigher(Append(output, ops[Len(ops)]), SubSeq(ops, 1, Len(ops) - 1), token)
    ELSE [output |-> output, ops |-> ops]

\* the inner while loop of the ')' branch
RECURSIVE PopToParen(_, _)
PopToParen(output, ops) ==
    IF Len(ops) > 0 /\ ops[Len(ops)] # "("
    THEN PopToParen(Append(output, ops[Len(ops)]), SubSeq(ops, 1, Len(ops) - 1))
    ELSE [output |-> output, ops |-> ops]

\* the final while loop: pops the remaining operators
RECURSIVE PopRest(_, _)
PopRest(output, ops) ==
    IF Len(ops) = 0 THEN [ok |-> TRUE, postfix |-> output, error |-> "none"]
    ELSE IF ops[Len(ops)] \in {"(", ")"}
    THEN [ok |-> FALSE, postfix |-> <<>>, error |-> "Parentesis desbalanceados"]
    ELSE PopRest(Append(output, ops[Len(ops)]), SubSeq(ops, 1, Len(ops) - 1))

\* ShuntingYard.shuntingYard: the main loop from index i
RECURSIVE ShuntFrom(_, _, _, _)
ShuntFrom(e, i, output, ops) ==
    IF i > Len(e) THEN PopRest(output, ops)
    ELSE LET token == e[i]
         IN IF isOperand(token) THEN ShuntFrom(e, i + 1, Append(output, token), ops)
            ELSE IF isOperator(token)
            THEN LET p == PopHigher(output, ops, token)
                 IN ShuntFrom(e, i + 1, p.output, Append(p.ops, token))
            ELSE IF token = "(" THEN ShuntFrom(e, i + 1, output, Append(ops, token))
            ELSE IF token = ")"
            THEN LET p == PopToParen(output, ops)
                 IN IF Len(p.ops) = 0
                    THEN [ok |-> FALSE, postfix |-> <<>>,
                          error |-> "Parentesis desbalanceados: falta parentesis de apertura"]
                    ELSE ShuntFrom(e, i + 1, p.output, SubSeq(p.ops, 1, Len(p.ops) - 1))
            ELSE [ok |-> FALSE, postfix |-> <<>>, error |-> "Caracter no reconocido"]

\* ShuntingYard.shuntingYard
shuntingYard(expression) == ShuntFrom(expression, 1, <<>>, <<>>)

\* ShuntingYard.infixToPostfix
infixToPostfix(r) == shuntingYard(preprocess(r))

\* validate's parenthesis loop: the count after the loop, -1 once it went negative
RECURSIVE ParenCount(_, _, _)
ParenCount(r, i, count) ==
    IF i > Len(r) THEN count
    ELSE IF r[i] = "(" THEN ParenCount(r, i + 1, count + 1)
    ELSE IF r[i] = ")"
    THEN IF count = 0 THEN -1 ELSE ParenCount(r, i + 1, count - 1)
    ELSE ParenCount(r, i + 1, count)

\* faulty variant of ShuntingYard.validate: the tests on the first and the
\* last character are missing
validateWithoutEnds(r) ==
    LET count == ParenCount(r, 1, 0)
    IN  (IF count < 0 THEN {"Parentesis de cierre sin apertura correspondiente"} ELSE {})
        \cup (IF count > 0 THEN {"Parentesis de apertura sin cierre correspondiente"} ELSE {})
        \cup (IF \E i \in 1..(Len(r) - 1) :
                    r[i] \in binaryOperators /\ r[i + 1] \in binaryOperators
              THEN {"Operadores binarios consecutivos"} ELSE {})

\* ShuntingYard.validate: the set of error messages
validate(r) ==
    LET count == ParenCount(r, 1, 0)
    IN  (IF count < 0 THEN {"Parentesis de cierre sin apertura correspondiente"} ELSE {})
        \cup (IF count > 0 THEN {"Parentesis de apertura sin cierre correspondiente"} ELSE {})
        \cup (IF \E i \in 1..(Len(r) - 1) :
                    r[i] \in binaryOperators /\ r[i + 1] \in binaryOperators
              THEN {"Operadores binarios consecutivos"} ELSE {})
        \cup (IF Len(r) > 0 /\ r[1] \in binaryOperators
              THEN {"La expresion no puede empezar con un operador binario"} ELSE {})
        \cup (IF Len(r) > 0 /\ r[Len(r)] \in binaryOperators
              THEN {"La expresion no puede terminar con un operador binario"} ELSE {})

\* ShuntingYard.convert; postfixIsNull tells 'postfix: null' from a string
convert(r) ==
    IF validate(r) # {}
    THEN [success |-> FALSE, postfix |-> <<>>, postfixIsNull |-> TRUE,
          errors |-> validate(r)]
    ELSE LET res == infixToPostfix(r)
         IN IF res.ok
            THEN [success |-> TRUE, postfix |-> res.postfix, postfixIsNull |-> FALSE,
                  errors |-> {}]
            ELSE [success |-> FALSE, postfix |-> <<>>, postfixIsNull |-> TRUE,
                  errors |-> {res.error}]

-----------------------------------------------------------------------------
(* subsetConstruction.js *)

\* the ids of a Set of State objects, sorted: the list both stateSetToString
\* and stampOriginOnDFAState compute
SortedIds(h, stateSet) ==
    LET members == SetToSeq(stateSet)
    IN SortNums([i \in 1..Len(members) |-> h[members[i]].id])

\* SubsetConstruction.stateSetToString: "{" + ids.join(",") + "}" is determined
\* by, and determines, the sorted list of ids
stateSetToString(h, stateSet) == SortedIds(h, stateSet)

\* SubsetConstruction.isAcceptingSetFrom
isAcceptingSetFrom(h, stateSet, acceptingNFAIds) ==
    \E s \in stateSet : h[s].id \in acceptingNFAIds

\* SubsetConstruction.stampOriginOnDFAState
stampOriginOnDFAState(st, h, stateSet) ==
    [st EXCEPT !.hasOrigin = TRUE, !.originNFAIds = SortedIds(h, stateSet)]

\* the fields of a SubsetConstruction and the locals of convertToDFA
NewSubsetConstruction ==
    [stateSetToId |-> {},      \* Map key -> DFA state id, as its set of entries
     idToStateSet |-> {},      \* Map DFA state id -> Set<State>, as its entries
     pending |-> <<>>,
     seen |-> {},
     acceptingNFAIds |-> {},
     alphabet |-> <<>>]

\* SubsetConstruction.getOrCreateDFAState
getOrCreateDFAState(h, A, d, stateSet, acceptingNFAIds) ==
    LET key == stateSetToString(h, stateSet)
    IN IF \E e \in d.stateSetToId : e.key = key
       THEN [h |-> h, A |-> A, d |-> d,
             s |-> getState(A, (CHOOSE e \in d.stateSetToId : e.key = key).id)]
       ELSE LET c  == createState(h, A, isAcceptingSetFrom(h, stateSet, acceptingNFAIds))
                id == c.h[c.s].id
            IN [h |-> [c.h EXCEPT ![c.s] = stampOriginOnDFAState(@, h, stateSet)],
                A |-> c.A,
                d |-> [d EXCEPT !.stateSetToId = @ \cup {[key |-> key, id |-> id]},
                                !.idToStateSet = @ \cup {[id |-> id, set |-> stateSet]}],
                s |-> c.s]

\* SubsetConstruction.move
move(h, states, symbol) == UNION {Range(getTransitions(h[st], symbol)) : st \in states}

\* faulty variant of the alphabet loop of convertToDFA: the targets of a move
\* are not grouped into one subset, each target's closure becomes a DFA state
\* of its own and gets its own transition
RECURSIVE ConvertTargets(_, _, _, _, _, _)
ConvertTargets(h, A, d, fromState, a, targets) ==
    IF targets = <<>> THEN [h |-> h, A |-> A, d |-> d]
    ELSE LET newSet == epsilonClosure(h, {Head(targets)})
             g   == getOrCreateDFAState(h, A, d, newSet, d.acceptingNFAIds)
             t   == addTransition(g.h, g.A, fromState, a, g.s)
             key == stateSetToString(h, newSet)
             d1  == IF key \notin g.d.seen
                    THEN [g.d EXCEPT !.seen = @ \cup {key},
                                     !.pending = Append(@, newSet)]
                    ELSE g.d
         IN ConvertTargets(t.h, t.A, d1, fromState, a, Tail(targets))

RECURSIVE ConvertSymbolsPerTarget(_, _, _, _, _, _, _)
ConvertSymbolsPerTarget(h, N, A, d, currentSet, fromState, alphabet) ==
    IF alphabet = <<>> THEN [h |-> h, A |-> A, d |-> d]
    ELSE LET r == ConvertTargets(h, A, d, fromState, Head(alphabet),
                                 SetToSeq(move(h, currentSet, Head(alphabet))))
         IN ConvertSymbolsPerTarget(r.h, N, r.A, r.d, currentSet, fromState, Tail(alphabet))

\* convertToDFA: the for loop over the alphabet for one dequeued set
RECURSIVE ConvertSymbols(_, _, _, _, _, _, _)
ConvertSymbols(h, N, A, d, currentSet, fromState, alphabet) ==
    IF alphabet = <<>> THEN [h |-> h, A |-> A, d |-> d]
    ELSE LET a == Head(alphabet)
             moveRes == move(h, currentSet, a)
         IN IF moveRes = {}
            THEN ConvertSymbols(h, N, A, d, currentSet, fromState, Tail(alphabet))
            ELSE LET newSet == epsilonClosure(h, moveRes)
                     g   == getOrCreateDFAState(h, A, d, newSet, d.acceptingNFAIds)
                     t   == addTransition(g.h, g.A, fromState, a, g.s)
                     key == stateSetToString(h, newSet)
                     d1  == IF key \notin g.d.seen
                            THEN [g.d EXCEPT !.seen = @ \cup {key},
                                             !.pending = Append(@, newSet)]
                            ELSE g.d
                 IN ConvertSymbols(t.h, N, t.A, d1, currentSet, fromState, Tail(alphabet))

\* convertToDFA up to the BFS loop
ConvertInit(h, N) ==
    LET acceptingNFAIds == {h[s].id : s \in N.acceptStates}
        initialClosure  == epsilonClosure(h, {N.startState})
        d0 == [NewSubsetConstruction EXCEPT !.acceptingNFAIds = acceptingNFAIds,
                                            !.alphabet = getAlphabet(N)]
        g  == getOrCreateDFAState(h, NewAutomaton("DFA"), d0, initialClosure, acceptingNFAIds)
    IN [h |-> g.h,
        A |-> setStartState(g.A, g.s),
        d |-> [g.d EXCEPT !.pending = <<initialClosure>>,
                          !.seen = {stateSetToString(h, initialClosure)}]]

\* one iteration of convertToDFA's while loop
ConvertIteration(h, N, A, d) ==
    LET currentSet == Head(d.pending)
        key        == stateSetToString(h, currentSet)
        fromId     == (CHOOSE e \in d.stateSetToId : e.key = key).id
        fromState  == getState(A, fromId)
    IN ConvertSymbols(h, N, A, [d EXCEPT !.pending = Tail(@)], currentSet, fromState, d.alphabet)

-----------------------------------------------------------------------------
(* hopcroft.js: HopcroftMinimization *)

\* every target of every transition of a State, in Map and Set iteration order
RECURSIVE AllTargets(_)
AllTargets(transitions) ==
    IF transitions = <<>> THEN <<>>
    ELSE Head(transitions).targets \o AllTargets(Tail(transitions))

\* removeUnreachableStates: the BFS; `reachable` is the insertion-ordered Set
RECURSIVE ReachableBFS(_, _, _)
ReachableBFS(h, queue, reachable) ==
    IF queue = <<>> THEN reachable
    ELSE LET found == SeqAddAll(reachable, AllTargets(h[Head(queue)].transitions))
         IN ReachableBFS(h, Tail(queue) \o SubSeq(found, Len(reachable) + 1, Len(found)), found)

\* position of x in a sequence without repetitions
IndexOf(s, x) == CHOOSE i \in 1..Len(s) : s[i] = x

\* removeUnreachableStates: the loop that copies the reachable states
RECURSIVE CopyReachable(_, _, _, _, _)
CopyReachable(h, A, D, reachable, i) ==
    IF i > Len(reachable) THEN [h |-> h, A |-> A]
    ELSE LET oldState == reachable[i]
             newState == Len(h) + 1
             h1 == Append(h, NewState(h[oldState].id, h[oldState].isAccepting))
             A1 == addState(h1, A, newState)
             A2 == IF oldState = D.startState THEN setStartState(A1, newState) ELSE A1
         IN CopyReachable(h1, A2, D, reachable, i + 1)

\* removeUnreachableStates: the loops that copy the transitions; base is the
\* heap size before the copies, so that reachable[i] was copied to base + i
RECURSIVE CopyTargets(_, _, _, _, _, _, _)
CopyTargets(h, A, reachable, base, from, symbol, targets) ==
    IF targets = <<>> THEN [h |-> h, A |-> A]
    ELSE LET t == IF Head(targets) \in Range(reachable)
                  THEN addTransition(h, A, from, symbol,
                                     base + IndexOf(reachable, Head(targets)))
                  ELSE [h |-> h, A |-> A]
         IN CopyTargets(t.h, t.A, reachable, base, from, symbol, Tail(targets))

RECURSIVE CopyTransitionsOf(_, _, _, _, _, _)
CopyTransitionsOf(h, A, reachable, base, from, transitions) ==
    IF transitions = <<>> THEN [h |-> h, A |-> A]
    ELSE LET t == CopyTargets(h, A, reachable, base, from,
                              Head(transitions).symbol, Head(transitions).targets)
         IN CopyTransitionsOf(t.h, t.A, reachable, base, from, Tail(transitions))

RECURSIVE CopyTransitions(_, _, _, _, _)
CopyTransitions(h, A, reachable, base, i) ==
    IF i > Len(reachable) THEN [h |-> h, A |-> A]
    ELSE LET t == CopyTransitionsOf(h, A, reachable, base, base + i,
                                    h[reachable[i]].transitions)
         IN CopyTransitions(t.h, t.A, reachable, base, i + 1)

\* HopcroftMinimization.removeUnreachableStates; same tells whether the
\* returned automaton is the input object itself
removeUnreachableStates(h, D) ==
    LET reachableStates == ReachableBFS(h, <<D.startState>>, <<D.startState>>)
    IN IF Len(reachableStates) = Len(D.states)
       THEN [h |-> h, A |-> D, same |-> TRUE]
       ELSE LET c == CopyReachable(h, NewAutomaton("DFA"), D, reachableStates, 1)
                t == CopyTransitions(c.h, c.A, reachableStates, Len(h), 1)
            IN [h |-> t.h, A |-> t.A, same |-> FALSE]

\* the elements of an insertion-ordered sequence that satisfy a flag
RECURSIVE Filter(_, _, _)
Filter(h, s, accepting) ==
    IF s = <<>> THEN <<>>
    ELSE (IF h[Head(s)].isAccepting = accepting THEN <<Head(s)>> ELSE <<>>)
         \o Filter(h, Tail(s), accepting)

\* the work-list entries {partition: i, symbol} for every symbol, in order
RECURSIVE WorkEntries(_, _)
WorkEntries(i, alphabet) ==
    IF alphabet = <<>> THEN <<>>
    ELSE <<[partition |-> i, symbol |-> Head(alphabet)]>> \o WorkEntries(i, Tail(alphabet))

\* the Map state -> partition index (0-based) that both initializePartitions
\* and split rebuild from the list of partitions
StateToPartition(partitions) ==
    [s \in UNION {Range(partitions[i]) : i \in 1..Len(partitions)} |->
        (CHOOSE i \in 1..Len(partitions) : s \in Range(partitions[i])) - 1]

\* HopcroftMinimization.initializePartitions
initializePartitions(h, D) ==
    LET all == [i \in 1..Len(D.states) |-> D.states[i].value]
        nonAcceptingStates == Filter(h, all, FALSE)
        acceptingStates    == Filter(h, all, TRUE)
        partitions == (IF Len(nonAcceptingStates) > 0 THEN <<nonAcceptingStates>> ELSE <<>>)
                      \o (IF Len(acceptingStates) > 0 THEN <<acceptingStates>> ELSE <<>>)
    IN [partitions |-> partitions,
        workList |-> IF Len(partitions) = 0 THEN <<>>
                     ELSE IF Len(partitions) = 1 THEN WorkEntries(0, getAlphabet(D))
                     ELSE WorkEntries(0, getAlphabet(D)) \o WorkEntries(1, getAlphabet(D)),
        stateToPartition |-> StateToPartition(partitions)]

\* faulty variant of split's grouping: the group of the states that do not
\* go to the splitter receives every state of the partition
RECURSIVE SplitSideOverlapping(_, _, _, _, _)
SplitSideOverlapping(h, partition, splitter, symbol, flag) ==
    IF partition = <<>> THEN <<>>
    ELSE LET goesToSplitterFlag ==
                 \E t \in Range(getTransitions(h[Head(partition)], symbol)) :
                     t \in Range(splitter)
         IN (IF goesToSplitterFlag \/ ~flag THEN <<Head(partition)>> ELSE <<>>)
            \o SplitSideOverlapping(h, Tail(partition), splitter, symbol, flag)

\* split: the states of a partition whose symbol-target lies (flag TRUE) or
\* does not lie (flag FALSE) in the splitter, in the partition's order
RECURSIVE SplitSide(_, _, _, _, _)
SplitSide(h, partition, splitter, symbol, flag) ==
    IF partition = <<>> THEN <<>>
    ELSE LET goesToSplitterFlag ==
                 \E t \in Range(getTransitions(h[Head(partition)], symbol)) :
                     t \in Range(splitter)
         IN (IF goesToSplitterFlag = flag THEN <<Head(partition)>> ELSE <<>>)
            \o SplitSide(h, Tail(partition), splitter, symbol, flag)

\* the two entries per symbol split pushes for a divided partition
RECURSIVE SplitEntries(_, _)
SplitEntries(n, alphabet) ==
    IF alphabet = <<>> THEN <<>>
    ELSE <<[partition |-> n - 2, symbol |-> Head(alphabet)],
           [partition |-> n - 1, symbol |-> Head(alphabet)]>>
         \o SplitEntries(n, Tail(alphabet))

\* split: the for loop over this.partitions from index i (1-based here);
\* splitterIndex is the position of the splitter object in this.partitions
RECURSIVE SplitLoop(_, _, _, _, _, _, _, _)
SplitLoop(h, D, partitions, splitterIndex, symbol, i, newPartitions, workList) ==
    IF i > Len(partitions)
    THEN [partitions |-> newPartitions, workList |-> workList]
    ELSE IF i = splitterIndex
    THEN SplitLoop(h, D, partitions, splitterIndex, symbol, i + 1,
                   Append(newPartitions, partitions[i]), workList)
    ELSE LET goesToSplitter == SplitSide(h, partitions[i], partitions[splitterIndex], symbol, TRUE)
             doesNotGoToSplitter == SplitSide(h, partitions[i], partitions[splitterIndex], symbol, FALSE)
         IN IF Len(goesToSplitter) > 0 /\ Len(doesNotGoToSplitter) > 0
            THEN LET np == newPartitions \o <<goesToSplitter, doesNotGoToSplitter>>
                 IN SplitLoop(h, D, partitions, splitterIndex, symbol, i + 1, np,
                              workList \o SplitEntries(Len(partitions) + Len(np), getAlphabet(D)))
            ELSE SplitLoop(h, D, partitions, splitterIndex, symbol, i + 1,
                           Append(newPartitions, partitions[i]), workList)

\* HopcroftMinimization.split, with the splitter given by its index (0-based)
split(h, D, m, splitterIndex, symbol) ==
    LET r == SplitLoop(h, D, m.partitions, splitterIndex + 1, symbol, 1, <<>>, m.workList)
    IN [m EXCEPT !.partitions = r.partitions,
                 !.workList = r.workList,
                 !.stateToPartition = StateToPartition(r.partitions)]

\* faulty variant of refinePartitions' loop body: an entry that is out of
\* range is left at the head of the workList
refineIterationKeepingStale(h, D, m) ==
    LET item == Head(m.workList)
    IN IF item.partition >= Len(m.partitions)
       THEN m
       ELSE split(h, D, [m EXCEPT !.workList = Tail(@)], item.partition, item.symbol)

\* one iteration of refinePartitions' while loop
refineIteration(h, D, m) ==
    LET item == Head(m.workList)
        m1   == [m EXCEPT !.workList = Tail(@)]
    IN IF item.partition >= Len(m1.partitions)
       THEN m1
       ELSE split(h, D, m1, item.partition, item.symbol)

\* buildMinimalDFA: the loop that creates one state per partition
RECURSIVE BuildStates(_, _, _, _, _)
BuildStates(h, M, D, partitions, index) ==
    IF index >= Len(partitions) THEN [h |-> h, A |-> M]
    ELSE LET partition == partitions[index + 1]
             c  == createState(h, M, \E s \in Range(partition) : h[s].isAccepting)
             h1 == [c.h EXCEPT ![c.s].id = index]
             A1 == IF D.startState \in Range(partition) THEN setStartState(c.A, c.s) ELSE c.A
         IN BuildStates(h1, A1, D, partitions, index + 1)

\* buildMinimalDFA: the loop over the alphabet for one partition; base is the
\* heap size before the states were created, so partitionToState(i) = base+i+1
RECURSIVE BuildSymbols(_, _, _, _, _, _, _)
BuildSymbols(h, M, m, base, fromIndex, representative, alphabet) ==
    IF alphabet = <<>> THEN [h |-> h, A |-> M]
    ELSE LET symbol == Head(alphabet)
             targetStates == getTransitions(h[representative], symbol)
             t == IF Len(targetStates) > 0
                  THEN LET toIndex == m.stateToPartition[targetStates[1]]
                       IN addTransition(h, M, base + fromIndex + 1, symbol, base + toIndex + 1)
                  ELSE [h |-> h, A |-> M]
         IN BuildSymbols(t.h, t.A, m, base, fromIndex, representative, Tail(alphabet))

RECURSIVE BuildTransitions(_, _, _, _, _, _)
BuildTransitions(h, M, D, m, base, fromIndex) ==
    IF fromIndex >= Len(m.partitions) THEN [h |-> h, A |-> M]
    ELSE LET t == BuildSymbols(h, M, m, base, fromIndex,
                               m.partitions[fromIndex + 1][1], getAlphabet(D))
         IN BuildTransitions(t.h, t.A, D, m, base, fromIndex + 1)

\* HopcroftMinimization.buildMinimalDFA
buildMinimalDFA(h, D, m) ==
    LET b == BuildStates(h, NewAutomaton("MinDFA"), D, m.partitions, 0)
    IN BuildTransitions(b.h, b.A, D, m, Len(h), 0)

\* the fields of a HopcroftMinimization and the locals of minimize
NewHopcroftMinimization ==
    [partitions |-> <<>>,
     workList |-> <<>>,
     stateToPartition |-> <<>>,
     reachableDFA |-> NewAutomaton("none"),
     same |-> FALSE]

-----------------------------------------------------------------------------
(* Inputs *)

\* the input symbols the enumerated expressions and words are written with
Sigma == {"a", "b"}

\* the words the automata are compared on
Words == SeqsUpTo(Sigma, MaxWordLen)

\* the expressions of the documented examples, and two longer concatenations
RegexA       == <<"a">>
RegexAorB    == <<"a", "|", "b">>
RegexAB      == <<"a", "b">>
RegexAstarBplus == <<"a", "*", "b", "+">>
RegexABstarABB  == <<"(", "a", "|", "b", ")", "*", "a", "b", "b">>
RegexAAAstarB   == <<"a", "a", "a", "*", "b">>

Scenarios == {RegexA, RegexAorB, RegexAB, RegexAstarBplus, RegexABstarABB, RegexAAAstarB}

\* the infix expressions a pipeline run starts from
RegexInputs == Scenarios \cup SeqsUpTo(Sigma \cup {"|", "*", "+", "?", "(", ")"}, MaxRegexLen)

\* the postfix expressions a buildNFA run starts from
PostfixInputs == SeqsUpTo(Sigma \cup {epsilonSymbol, "|", ".", "*", "+", "?"}, MaxPostfixLen)

NoAutomaton == NewAutomaton("none")
NoError == "none"

\* no call of Automaton.accepts has been made
NoSimulation ==
    [phase |-> "idle", which |-> "none", input |-> <<>>, i |-> 0,
     currentState |-> Null, currentStates |-> {}, steps |-> <<>>, accepted |-> FALSE]

\* a DFA built through the Automaton API: n states created in order, state 0
\* the start state, then one addTransition per defined delta[i, a] (delta = n
\* stands for no transition), state by state and symbol by symbol
RECURSIVE CreateStates(_, _, _, _)
CreateStates(h, A, acc, i) ==
    IF i > Len(acc) THEN [h |-> h, A |-> A]
    ELSE LET c == createState(h, A, acc[i]) IN CreateStates(c.h, c.A, acc, i + 1)

RECURSIVE AddTransitions(_, _, _, _, _)
AddTransitions(h, A, n, delta, k) ==
    IF k >= 2 * n THEN [h |-> h, A |-> A]
    ELSE LET i == k \div 2
             a == IF k % 2 = 0 THEN "a" ELSE "b"
             t == IF delta[i, a] < n
                  THEN addTransition(h, A, i + 1, a, delta[i, a] + 1)
                  ELSE [h |-> h, A |-> A]
         IN AddTransitions(t.h, t.A, n, delta, k + 1)

MakeDFA(acc, delta) ==
    LET c == CreateStates(<<>>, NewAutomaton("DFA"), acc, 1)
    IN AddTransitions(c.h, setStartState(c.A, 1), Len(acc), delta, 0)

-----------------------------------------------------------------------------
(* The runs *)

\* the whole pipeline on an infix expression
Init ==
    /\ \E r \in RegexInputs :
          /\ regex = r
          /\ mode = "regex" /\ pc = "parse"
    /\ postfix = <<>> /\ pos = 0 /\ stack = <<>> /\ heap = <<>>
    /\ nfa = NoAutomaton /\ dfa = NoAutomaton /\ minDFA = NoAutomaton
    /\ det = NewSubsetConstruction /\ hop = NewHopcroftMinimization
    /\ err = NoError
    /\ sim = NoSimulation
    /\ opt = <<>>

\* buildNFA on a postfix expression
InitBuild ==
    /\ \E p \in PostfixInputs :
          /\ postfix = p
          /\ mode = "postfix" /\ pc = "build"
    /\ regex = <<>> /\ pos = 0 /\ stack = <<>> /\ heap = <<>>
    /\ nfa = NoAutomaton /\ dfa = NoAutomaton /\ minDFA = NoAutomaton
    /\ det = NewSubsetConstruction /\ hop = NewHopcroftMinimization
    /\ err = NoError
    /\ sim = NoSimulation
    /\ opt = <<>>

\* minimize on a DFA built through the API
InitMin ==
    /\ \E n \in 1..MaxDfaStates :
         \E acc \in [1..n -> BOOLEAN] :
           \E delta \in [(0..(n - 1)) \X Sigma -> 0..n] :
              LET d == MakeDFA(acc, delta)
              IN heap = d.h /\ dfa = d.A
    /\ mode = "dfa" /\ pc = "minimize"
    /\ regex = <<>> /\ postfix = <<>> /\ pos = 0 /\ stack = <<>>
    /\ nfa = NoAutomaton /\ minDFA = NoAutomaton
    /\ det = NewSubsetConstruction /\ hop = NewHopcroftMinimization
    /\ err = NoError
    /\ sim = NoSimulation
    /\ opt = <<>>

\* shuntingYard.convert(regex), then buildNFA(result.postfix)
Parse ==
    /\ pc = "parse"
    /\ LET result == convert(regex)
       IN IF result.success
          THEN postfix' = result.postfix /\ pc' = "build" /\ err' = err
          ELSE postfix' = postfix /\ pc' = "failed" /\ err' = "ParseError"
    /\ UNCHANGED <<mode, regex, pos, stack, heap, nfa, dfa, det, hop, minDFA, sim, opt>>

\* one iteration of buildNFA's loop
BuildStep ==
    /\ pc = "build"
    /\ pos < Len(postfix)
    /\ LET symbol == postfix[pos + 1]
       IN IF ThompsonIsOperator(symbol) /\ Len(stack) < Arity(symbol)
          THEN /\ pc' = "failed" /\ err' = "requiere operando"
               /\ UNCHANGED <<pos, stack, heap>>
          ELSE LET r == BuildToken(heap, stack, symbol)
               IN /\ heap' = r.h /\ stack' = r.stack /\ pos' = pos + 1
                  /\ UNCHANGED <<pc, err>>
    /\ UNCHANGED <<mode, regex, postfix, nfa, dfa, det, hop, minDFA, sim, opt>>

\* buildNFA after the loop
BuildFinish ==
    /\ pc = "build"
    /\ pos = Len(postfix)
    /\ IF Len(stack) # 1
       THEN /\ pc' = "failed" /\ err' = "la pila debe contener exactamente un AFN"
            /\ nfa' = nfa
       ELSE /\ nfa' = stack[1]
            /\ pc' = IF mode = "regex" THEN "convert" ELSE "done"
            /\ err' = err
    /\ UNCHANGED <<mode, regex, postfix, pos, stack, heap, dfa, det, hop, minDFA, sim, opt>>

\* convertToDFA, or convertWithSteps (which has no type test), up to the
\* while loop
ConvertStart ==
    /\ pc = "convert"
    /\ IF mode # "convertWithSteps" /\ nfa.type # "NFA"
       THEN /\ pc' = "failed" /\ err' = "El automata de entrada debe ser un AFN"
            /\ UNCHANGED <<heap, dfa, det>>
       ELSE LET r == ConvertInit(heap, nfa)
            IN /\ heap' = r.h /\ dfa' = r.A /\ det' = r.d
               /\ pc' = "subsets" /\ err' = err
    /\ UNCHANGED <<mode, regex, postfix, pos, stack, nfa, hop, minDFA, sim, opt>>

\* one iteration of convertToDFA's while loop
ConvertStep ==
    /\ pc = "subsets"
    /\ Len(det.pending) > 0
    /\ LET r == ConvertIteration(heap, nfa, dfa, det)
       IN heap' = r.h /\ dfa' = r.A /\ det' = r.d
    /\ UNCHANGED <<mode, pc, regex, postfix, pos, stack, nfa, hop, minDFA, err, sim, opt>>

\* convertToDFA after the loop
ConvertFinish ==
    /\ pc = "subsets"
    /\ Len(det.pending) = 0
    /\ dfa' = [dfa EXCEPT !.hasAcceptingNFAIds = TRUE,
                         !.acceptingNFAIds = det.acceptingNFAIds]
    /\ pc' = IF mode = "regex" THEN "minimize" ELSE "done"
    /\ UNCHANGED <<mode, regex, postfix, pos, stack, heap, nfa, det, hop, minDFA, err,
                 sim, opt>>

\* minimize, or minimizeWithSteps (which has no type test and returns
\* reachableDFA as it is when it has at most one state), up to
\* refinePartitions' while loop
MinimizeStart ==
    /\ pc = "minimize"
    /\ IF mode # "minimizeWithSteps" /\ dfa.type # "DFA"
       THEN /\ pc' = "failed" /\ err' = "El automata de entrada debe ser un AFD"
            /\ UNCHANGED <<heap, dfa, hop, minDFA>>
       ELSE LET r == removeUnreachableStates(heap, dfa)
                tag == IF mode = "minimizeWithSteps" THEN r.A.type ELSE "MinDFA"
            IN IF Len(r.A.states) <= 1
               THEN /\ minDFA' = [r.A EXCEPT !.type = tag]
                    /\ dfa' = IF r.same THEN [dfa EXCEPT !.type = tag] ELSE dfa
                    /\ hop' = [hop EXCEPT !.reachableDFA = [r.A EXCEPT !.type = tag],
                                          !.same = r.same]
                    /\ heap' = r.h
                    /\ pc' = "done" /\ err' = err
               ELSE LET p == initializePartitions(r.h, r.A)
                    IN /\ hop' = [partitions |-> p.partitions,
                                  workList |-> p.workList,
                                  stateToPartition |-> p.stateToPartition,
                                  reachableDFA |-> r.A,
                                  same |-> r.same]
                       /\ heap' = r.h
                       /\ pc' = "refine" /\ err' = err
                       /\ UNCHANGED <<dfa, minDFA>>
    /\ UNCHANGED <<mode, regex, postfix, pos, stack, nfa, det, sim, opt>>

\* one iteration of refinePartitions' while loop
RefineStep ==
    /\ pc = "refine"
    /\ Len(hop.workList) > 0
    /\ hop' = refineIteration(heap, hop.reachableDFA, hop)
    /\ UNCHANGED <<mode, pc, regex, postfix, pos, stack, heap, nfa, dfa, det, minDFA, err,
                 sim, opt>>

\* refinePartitions' exit and buildMinimalDFA
MinimizeFinish ==
    /\ pc = "refine"
    /\ Len(hop.workList) = 0
    /\ LET r == buildMinimalDFA(heap, hop.reachableDFA, hop)
       IN heap' = r.h /\ minDFA' = r.A
    /\ pc' = "done"
    /\ UNCHANGED <<mode, regex, postfix, pos, stack, nfa, dfa, det, hop, err, sim, opt>>

Next ==
    \/ Parse
    \/ BuildStep
    \/ BuildFinish
    \/ ConvertStart
    \/ ConvertStep
    \/ ConvertFinish
    \/ MinimizeStart
    \/ RefineStep
    \/ MinimizeFinish

NextBuild == BuildStep \/ BuildFinish

NextMin == MinimizeStart \/ RefineStep \/ MinimizeFinish

Spec == Init /\ [][Next]_vars

SpecBuild == InitBuild /\ [][NextBuild]_vars

SpecMin == InitMin /\ [][NextMin]_vars

-----------------------------------------------------------------------------
(* Reference semantics and auxiliary notions used by the properties *)

\* the words of at most MaxWordLen symbols of a language product
LangConcat(L1, L2) == {w \in {u \o v : u \in L1, v \in L2} : Len(w) <= MaxWordLen}

\* zero or more repetitions, up to MaxWordLen symbols
RECURSIVE LangStar(_, _)
LangStar(S, L) ==
    LET more == S \cup LangConcat(S, L)
    IN IF more = S THEN S ELSE LangStar(more, L)

\* the language of a postfix expression read with the direct semantics of the
\* operators; the result is the stack of languages, <<>> when an operator
\* lacks operands
RECURSIVE LangEval(_, _)
LangEval(p, stk) ==
    IF p = <<>> THEN stk
    ELSE LET c == Head(p)
             n == Len(stk)
         IN IF c \in {"*", "+", "?"}
            THEN IF n < 1 THEN <<>>
                 ELSE LET L == stk[n]
                          R == IF c = "*" THEN LangStar({<<>>}, L)
                               ELSE IF c = "+" THEN LangConcat(L, LangStar({<<>>}, L))
                               ELSE L \cup {<<>>}
                      IN LangEval(Tail(p), Append(SubSeq(stk, 1, n - 1), R))
            ELSE IF c \in {"|", "."}
            THEN IF n < 2 THEN <<>>
                 ELSE LET R == IF c = "|" THEN stk[n - 1] \cup stk[n]
                               ELSE LangConcat(stk[n - 1], stk[n])
                      IN LangEval(Tail(p), Append(SubSeq(stk, 1, n - 2), R))
            ELSE LangEval(Tail(p), Append(stk, IF c = epsilonSymbol THEN {<<>>} ELSE {<<c>>}))

\* a postfix expression is well formed when its evaluation leaves one operand
WellFormedPostfix(p) == Len(LangEval(p, <<>>)) = 1

Language(p) == LangEval(p, <<>>)[1]

\* the State objects reachable from a State by symbol or epsilon transitions
RECURSIVE Reach(_, _)
Reach(h, S) ==
    LET more == S \cup UNION {h[s].epsilonTransitions : s \in S}
                  \cup UNION {Range(AllTargets(h[s].transitions)) : s \in S}
    IN IF more = S THEN S ELSE Reach(h, more)

\* the State objects of an automaton: its collection, its start and accept
\* states and everything reachable from them
ObjectsOf(h, A) ==
    Reach(h, StateObjects(A) \cup A.acceptStates
             \cup (IF A.startState = Null THEN {} ELSE {A.startState}))

\* the words over the alphabet of an automaton
WordsOver(A) == {w \in Words : Range(w) \subseteq Range(A.alphabet)}

Word_abb    == <<"a", "b", "b">>
Word_aabb   == <<"a", "a", "b", "b">>
Word_ab     == <<"a", "b">>
Word_abab   == <<"a", "b", "a", "b">>
Word_aaabbb == <<"a", "a", "a", "b", "b", "b">>
Word_ba     == <<"b", "a">>

-----------------------------------------------------------------------------
(* Free use of the Automaton API and of the Thompson compositions *)

\* the symbols an API run passes to addTransition and basicSymbol
ApiSymbols == Sigma \cup {epsilonSymbol, ""}

RemoveAt(s, i) == SubSeq(s, 1, i - 1) \o SubSeq(s, i + 1, Len(s))

\* an API run starts with one new Automaton('NFA')
InitApi ==
    /\ mode = "api" /\ pc = "api"
    /\ stack = <<NewAutomaton("NFA")>>
    /\ regex = <<>> /\ postfix = <<>> /\ pos = 0 /\ heap = <<>>
    /\ nfa = NoAutomaton /\ dfa = NoAutomaton /\ minDFA = NoAutomaton
    /\ det = NewSubsetConstruction /\ hop = NewHopcroftMinimization
    /\ err = NoError
    /\ sim = NoSimulation
    /\ opt = <<>>

\* automaton.createState(isAccepting) on one of the automata
ApiCreateState ==
    /\ pc = "api" /\ pos < MaxApiCalls
    /\ \E i \in 1..Len(stack), isAccepting \in BOOLEAN :
          LET c == createState(heap, stack[i], isAccepting)
          IN heap' = c.h /\ stack' = [stack EXCEPT ![i] = c.A]
    /\ pos' = pos + 1
    /\ UNCHANGED <<mode, pc, regex, postfix, nfa, dfa, det, hop, minDFA, err, sim, opt>>

\* automaton.addTransition(from, symbol, to) between two of its states
ApiAddTransition ==
    /\ pc = "api" /\ pos < MaxApiCalls
    /\ \E i \in 1..Len(stack), symbol \in ApiSymbols :
         \E from \in ObjectsOf(heap, stack[i]), to \in ObjectsOf(heap, stack[i]) :
            LET t == addTransition(heap, stack[i], from, symbol, to)
            IN heap' = t.h /\ stack' = [stack EXCEPT ![i] = t.A]
    /\ pos' = pos + 1
    /\ UNCHANGED <<mode, pc, regex, postfix, nfa, dfa, det, hop, minDFA, err, sim, opt>>

\* thompson.basicSymbol(symbol): what buildNFA does on an operand; the
\* characters of a postfix string are never the empty string
ApiBasicSymbol ==
    /\ pc = "api" /\ pos < MaxApiCalls
    /\ \E symbol \in ApiSymbols \ {""} :
          LET r == basicSymbol(heap, symbol)
          IN heap' = r.h /\ stack' = Append(stack, r.A)
    /\ pos' = pos + 1
    /\ UNCHANGED <<mode, pc, regex, postfix, nfa, dfa, det, hop, minDFA, err, sim, opt>>

\* kleeneStar, oneOrMore or optional of one automaton that has a start state;
\* as in buildNFA the operand is given up for the result
ApiUnary ==
    /\ pc = "api" /\ pos < MaxApiCalls
    /\ \E i \in 1..Len(stack), op \in {"*", "+", "?"} :
          /\ stack[i].startState # Null
          /\ LET r == BuildToken(heap, <<stack[i]>>, op)
             IN heap' = r.h /\ stack' = RemoveAt(stack, i) \o r.stack
    /\ pos' = pos + 1
    /\ UNCHANGED <<mode, pc, regex, postfix, nfa, dfa, det, hop, minDFA, err, sim, opt>>

\* alternation or concatenation of two automata that have start states
ApiBinary ==
    /\ pc = "api" /\ pos < MaxApiCalls
    /\ \E i \in 1..Len(stack), j \in 1..Len(stack), op \in {"|", "."} :
          /\ i # j
          /\ stack[i].startState # Null /\ stack[j].startState # Null
          /\ LET r == BuildToken(heap, <<stack[i], stack[j]>>, op)
                 rest == IF i < j THEN RemoveAt(RemoveAt(stack, j), i)
                         ELSE RemoveAt(RemoveAt(stack, i), j)
             IN heap' = r.h /\ stack' = rest \o r.stack
    /\ pos' = pos + 1
    /\ UNCHANGED <<mode, pc, regex, postfix, nfa, dfa, det, hop, minDFA, err, sim, opt>>

NextApi ==
    \/ ApiCreateState
    \/ ApiAddTransition
    \/ ApiBasicSymbol
    \/ ApiUnary
    \/ ApiBinary

SpecApi == InitApi /\ [][NextApi]_vars

-----------------------------------------------------------------------------
(* One call of an entry point of the determinizer or of the minimizer *)

ConvertEntries == {"convertToDFA", "convertWithSteps"}
MinimizeEntries == {"minimize", "minimizeWithSteps"}

\* the type tags an Automaton is constructed with
TypeTags == {"NFA", "DFA", "MinDFA"}

\* an entry point is called with an automaton built through the API and
\* carrying any of the type tags
InitEntry ==
    /\ \E entry \in ConvertEntries \cup MinimizeEntries, tag \in TypeTags :
         \E n \in 1..MaxEntryStates :
           \E acc \in [1..n -> BOOLEAN] :
             \E delta \in [(0..(n - 1)) \X Sigma -> 0..n] :
                LET d == MakeDFA(acc, delta)
                    A == [d.A EXCEPT !.type = tag]
                IN /\ mode = entry
                   /\ heap = d.h
                   /\ IF entry \in ConvertEntries
                      THEN nfa = A /\ dfa = NoAutomaton /\ pc = "convert"
                      ELSE dfa = A /\ nfa = NoAutomaton /\ pc = "minimize"
    /\ regex = <<>> /\ postfix = <<>> /\ pos = 0 /\ stack = <<>>
    /\ minDFA = NoAutomaton
    /\ det = NewSubsetConstruction /\ hop = NewHopcroftMinimization
    /\ err = NoError
    /\ sim = NoSimulation
    /\ opt = <<>>

NextEntry ==
    \/ ConvertStart
    \/ ConvertStep
    \/ ConvertFinish
    \/ MinimizeStart
    \/ RefineStep
    \/ MinimizeFinish

SpecEntry == InitEntry /\ [][NextEntry]_vars

-----------------------------------------------------------------------------
(* ShuntingYard.convert on its own *)

\* the characters of the expressions handed to convert: symbols, operators,
\* parentheses, the explicit concatenation operator and a character that is
\* none of these
OtherChar == "#"
ParseChars == Sigma \cup {"|", "*", "+", "?", "(", ")", ".", OtherChar}

InitParse ==
    /\ \E r \in SeqsUpTo(ParseChars, MaxRegexLen) :
          /\ regex = r
          /\ mode = "parse" /\ pc = "parse"
    /\ postfix = <<>> /\ pos = 0 /\ stack = <<>> /\ heap = <<>>
    /\ nfa = NoAutomaton /\ dfa = NoAutomaton /\ minDFA = NoAutomaton
    /\ det = NewSubsetConstruction /\ hop = NewHopcroftMinimization
    /\ err = NoError
    /\ sim = NoSimulation
    /\ opt = <<>>

NextParse == Parse

SpecParse == InitParse /\ [][NextParse]_vars

-----------------------------------------------------------------------------
(* Automaton.export and testautomata.js *)

\* the id export writes for a missing start state (null)
NullId == -1

\* Automaton.export / FileExporter.extractAutomatonData: the exported record.
\* The keys of the states Map, the ids of the start and accept State objects
\* and one {from, symbol, to} record per transition of the States held in
\* the states Map; the sorted lists are kept as sets.
export(h, A) ==
    [type |-> A.type,
     ESTADOS |-> {A.states[i].key : i \in 1..Len(A.states)},
     SIMBOLOS |-> Range(getAlphabet(A)),
     INICIO |-> IF A.startState # Null THEN h[A.startState].id ELSE NullId,
     ACEPTACION |-> {h[s].id : s \in A.acceptStates},
     TRANSICIONES |->
        UNION {
          UNION {{[from |-> h[s].id, symbol |-> h[s].transitions[j].symbol,
                   to |-> h[t].id] : t \in Range(h[s].transitions[j].targets)} :
                 j \in 1..Len(h[s].transitions)}
          \cup {[from |-> h[s].id, symbol |-> epsilonSymbol, to |-> h[t].id] :
                   t \in h[s].epsilonTransitions}
          : s \in StateObjects(A)}]

\* simularAutomata's Map 'transiciones': the entry of key "from,symbol" is the
\* one set last, that is the largest 'to' in the sorted TRANSICIONES;
\* NullId when the key is absent
transiciones(automata, estado, simbolo) ==
    LET tos == {t.to : t \in {u \in automata.TRANSICIONES :
                                 u.from = estado /\ u.symbol = simbolo}}
    IN IF tos = {} THEN NullId
       ELSE CHOOSE x \in tos : \A y \in tos : y <= x

\* simularAutomata's walk over one 'cadena': the state reached, NullId (null)
\* when a key is missing
RECURSIVE simularWalk(_, _, _)
simularWalk(automata, estado, cadena) ==
    IF cadena = <<>> THEN estado
    ELSE LET to == transiciones(automata, estado, Head(cadena))
         IN IF to = NullId THEN NullId
            ELSE simularWalk(automata, to, Tail(cadena))

\* simularAutomata: 'estado && automata.ACEPTACION.includes(estado)', where
\* null and the number 0 are both falsy
simularAutomata(automata, cadena) ==
    LET estado == simularWalk(automata, automata.INICIO, cadena)
    IN estado # NullId /\ estado # 0 /\ estado \in automata.ACEPTACION

-----------------------------------------------------------------------------
(* Automaton.accepts on the automata of a pipeline run *)

\* a symbol that is in no alphabet
OutsideSymbol == "x"

\* the input strings handed to Automaton.accepts
SimInputs == SeqsUpTo(Sigma \cup {OutsideSymbol}, MaxWordLen)

\* faulty variant of substring: the character at i - 1 is kept
substringKeepingOne(input, i) == SubSeq(input, i, Len(input))

\* String.prototype.substring(i) with a 0-based i
substring(input, i) == SubSeq(input, i + 1, Len(input))

\* Array.from(currentStates).map(s => s.id); the Set's insertion order is not
\* kept by the model, the ids are listed in a fixed order
StateIds(h, states) == LET q == SetToSeq(states) IN [k \in 1..Len(q) |-> h[q[k]].id]

\* the automaton the call was made on
SimAutomaton ==
    IF sim.which = "nfa" THEN nfa ELSE IF sim.which = "dfa" THEN dfa ELSE minDFA

\* the two worked examples of the README
RegexReadmeCase1 ==
    <<"(", "b", "|", "b", ")", "*", "a", "b", "b", "(", "a", "|", "b", ")", "*">>
RegexReadmeCase2 == <<"a", "*", "b", "+">>
ReadmeExamples == {RegexReadmeCase1, RegexReadmeCase2}

InitSim ==
    /\ \E r \in Scenarios \cup ReadmeExamples :
          /\ regex = r
          /\ mode = "regex" /\ pc = "parse"
    /\ postfix = <<>> /\ pos = 0 /\ stack = <<>> /\ heap = <<>>
    /\ nfa = NoAutomaton /\ dfa = NoAutomaton /\ minDFA = NoAutomaton
    /\ det = NewSubsetConstruction /\ hop = NewHopcroftMinimization
    /\ err = NoError
    /\ sim = NoSimulation
    /\ opt = <<>>

\* Automaton.accepts: the choice of the simulator, and the simulator up to
\* its loop (the initial record)
AcceptsStart ==
    /\ pc = "done" /\ sim.phase = "idle"
    /\ \E which \in {"nfa", "dfa", "minDFA"}, input \in SimInputs :
          LET A == IF which = "nfa" THEN nfa ELSE IF which = "dfa" THEN dfa ELSE minDFA
          IN IF A.type = "DFA" \/ A.type = "MinDFA"
             THEN sim' = [phase |-> "simulateDFA", which |-> which, input |-> input,
                          i |-> 0, currentState |-> A.startState, currentStates |-> {},
                          steps |-> <<[step |-> 0,
                                       currentState |-> heap[A.startState].id,
                                       remainingInput |-> input,
                                       action |-> "Inicio"]>>,
                          accepted |-> FALSE]
             ELSE LET closure == epsilonClosure(heap, {A.startState})
                  IN sim' = [phase |-> "simulateNFA", which |-> which, input |-> input,
                             i |-> 0, currentState |-> Null, currentStates |-> closure,
                             steps |-> <<[step |-> 0,
                                          currentStates |-> StateIds(heap, closure),
                                          remainingInput |-> input,
                                          action |-> "Inicio (clausura epsilon)"]>>,
                             accepted |-> FALSE]
    /\ UNCHANGED <<mode, pc, regex, postfix, pos, stack, heap, nfa, dfa, det, hop,
                   minDFA, err, opt>>

\* faulty variant of simulateDFA's loop: a symbol without a transition is
\* skipped, the walk goes on from the same state
SimulateDFAStepSkipping ==
    /\ sim.phase = "simulateDFA" /\ sim.i < Len(sim.input)
    /\ LET symbol == sim.input[sim.i + 1]
           nextStates == getTransitions(heap[sim.currentState], symbol)
           target == IF Len(nextStates) = 0 THEN sim.currentState ELSE nextStates[1]
       IN sim' = [sim EXCEPT
                  !.currentState = target,
                  !.steps = Append(@, [step |-> sim.i + 1,
                                       currentState |-> heap[target].id,
                                       symbol |-> symbol,
                                       remainingInput |-> substring(sim.input, sim.i + 1),
                                       action |-> "Transicion"]),
                  !.i = @ + 1]
    /\ UNCHANGED <<mode, pc, regex, postfix, pos, stack, heap, nfa, dfa, det, hop,
                   minDFA, err, opt>>

\* one iteration of simulateDFA's loop
SimulateDFAStep ==
    /\ sim.phase = "simulateDFA" /\ sim.i < Len(sim.input)
    /\ LET symbol == sim.input[sim.i + 1]
           nextStates == getTransitions(heap[sim.currentState], symbol)
       IN IF Len(nextStates) = 0
          THEN sim' = [sim EXCEPT
                  !.steps = Append(@, [step |-> sim.i + 1,
                                       currentState |-> heap[sim.currentState].id,
                                       symbol |-> symbol,
                                       remainingInput |-> substring(sim.input, sim.i + 1),
                                       action |-> "Rechazada - No hay transicion"]),
                  !.accepted = FALSE,
                  !.phase = "returned"]
          ELSE sim' = [sim EXCEPT
                  !.currentState = nextStates[1],
                  !.steps = Append(@, [step |-> sim.i + 1,
                                       currentState |-> heap[nextStates[1]].id,
                                       symbol |-> symbol,
                                       remainingInput |-> substring(sim.input, sim.i + 1),
                                       action |-> "Transicion"]),
                  !.i = @ + 1]
    /\ UNCHANGED <<mode, pc, regex, postfix, pos, stack, heap, nfa, dfa, det, hop,
                   minDFA, err, opt>>

\* simulateDFA after the loop
SimulateDFAFinish ==
    /\ sim.phase = "simulateDFA" /\ sim.i = Len(sim.input)
    /\ LET accepted == heap[sim.currentState].isAccepting
       IN sim' = [sim EXCEPT
               !.steps = Append(@, [step |-> Len(sim.input) + 1,
                                    currentState |-> heap[sim.currentState].id,
                                    remainingInput |-> <<>>,
                                    action |-> IF accepted THEN "Aceptada"
                                               ELSE "Rechazada - Estado no final"]),
               !.accepted = accepted,
               !.phase = "returned"]
    /\ UNCHANGED <<mode, pc, regex, postfix, pos, stack, heap, nfa, dfa, det, hop,
                   minDFA, err, opt>>

\* one iteration of simulateNFA's loop
SimulateNFAStep ==
    /\ sim.phase = "simulateNFA" /\ sim.i < Len(sim.input)
    /\ LET symbol == sim.input[sim.i + 1]
           nextStates == NFAMove(heap, sim.currentStates, symbol)
       IN IF nextStates = {}
          THEN sim' = [sim EXCEPT
                  !.steps = Append(@, [step |-> sim.i + 1,
                                       currentStates |-> StateIds(heap, sim.currentStates),
                                       symbol |-> symbol,
                                       remainingInput |-> substring(sim.input, sim.i + 1),
                                       action |-> "Rechazada - No hay transiciones"]),
                  !.accepted = FALSE,
                  !.phase = "returned"]
          ELSE LET closure == epsilonClosure(heap, nextStates)
               IN sim' = [sim EXCEPT
                  !.currentStates = closure,
                  !.steps = Append(@, [step |-> sim.i + 1,
                                       currentStates |-> StateIds(heap, closure),
                                       symbol |-> symbol,
                                       remainingInput |-> substring(sim.input, sim.i + 1),
                                       action |-> "Transicion + clausura epsilon"]),
                  !.i = @ + 1]
    /\ UNCHANGED <<mode, pc, regex, postfix, pos, stack, heap, nfa, dfa, det, hop,
                   minDFA, err, opt>>

\* simulateNFA after the loop
SimulateNFAFinish ==
    /\ sim.phase = "simulateNFA" /\ sim.i = Len(sim.input)
    /\ LET accepted == \E st \in sim.currentStates : heap[st].isAccepting
       IN sim' = [sim EXCEPT
               !.steps = Append(@, [step |-> Len(sim.input) + 1,
                                    currentStates |-> StateIds(heap, sim.currentStates),
                                    remainingInput |-> <<>>,
                                    action |-> IF accepted THEN "Aceptada"
                                               ELSE "Rechazada - Ningun estado final"]),
               !.accepted = accepted,
               !.phase = "returned"]
    /\ UNCHANGED <<mode, pc, regex, postfix, pos, stack, heap, nfa, dfa, det, hop,
                   minDFA, err, opt>>

NextSim ==
    \/ Parse
    \/ BuildStep
    \/ BuildFinish
    \/ ConvertStart
    \/ ConvertStep
    \/ ConvertFinish
    \/ MinimizeStart
    \/ RefineStep
    \/ MinimizeFinish
    \/ AcceptsStart
    \/ SimulateDFAStep
    \/ SimulateDFAFinish
    \/ SimulateNFAStep
    \/ SimulateNFAFinish

SpecSim == InitSim /\ [][NextSim]_vars

-----------------------------------------------------------------------------
(* SubsetConstruction.removeUnreachableStates *)

\* how many times the function is applied in a row, the second and later
\* times to its own output
MaxPrunes == 2

\* accNFA: dfa._acceptingNFAIds when it is a Set, otherwise a new empty Set
accNFA(D) == IF D.hasAcceptingNFAIds THEN D.acceptingNFAIds ELSE {}

\* ok: acceptance by intersection when originNFAIds is an Array, otherwise
\* the flag of the State
ok(oldSt, acc) ==
    IF oldSt.hasOrigin
    THEN \E id \in Range(oldSt.originNFAIds) : id \in acc
    ELSE oldSt.isAccepting

\* the loop that copies the reachable states: ns.originNFAIds is always an
\* Array afterwards, the empty one when oldSt had none; reachable[i] is
\* copied to the State at Len(h) + i
RECURSIVE copyStates(_, _, _, _, _)
copyStates(h, A, D, reachable, i) ==
    IF i > Len(reachable) THEN [h |-> h, A |-> A]
    ELSE LET oldSt == reachable[i]
             c  == createState(h, A, ok(h[oldSt], accNFA(D)))
             h1 == [c.h EXCEPT ![c.s].hasOrigin = TRUE,
                               ![c.s].originNFAIds = h[oldSt].originNFAIds]
             A1 == IF oldSt = D.startState THEN setStartState(c.A, c.s) ELSE c.A
         IN copyStates(h1, A1, D, reachable, i + 1)

\* SubsetConstruction.removeUnreachableStates
SubsetConstructionRemoveUnreachableStates(h, D) ==
    LET reachable == IF D.startState = Null THEN <<>>
                     ELSE ReachableBFS(h, <<D.startState>>, <<D.startState>>)
        c == copyStates(h, NewAutomaton("DFA"), D, reachable, 1)
        t == CopyTransitions(c.h, c.A, reachable, Len(h), 1)
    IN [h |-> t.h,
        A |-> [t.A EXCEPT !.hasAcceptingNFAIds = TRUE,
                          !.acceptingNFAIds = accNFA(D)]]

\* removeUnreachableStates on a DFA built through the API, which carries
\* neither _acceptingNFAIds nor originNFAIds
InitPruneApi ==
    /\ \E n \in 1..MaxDfaStates :
         \E acc \in [1..n -> BOOLEAN] :
           \E delta \in [(0..(n - 1)) \X Sigma -> 0..n] :
              LET d == MakeDFA(acc, delta)
              IN heap = d.h /\ dfa = d.A
    /\ mode = "prune" /\ pc = "prune"
    /\ regex = <<>> /\ postfix = <<>> /\ pos = 0 /\ stack = <<>>
    /\ nfa = NoAutomaton /\ minDFA = NoAutomaton
    /\ det = NewSubsetConstruction /\ hop = NewHopcroftMinimization
    /\ err = NoError
    /\ sim = NoSimulation
    /\ opt = <<>>

\* ... or on the DFA of a pipeline run, which carries both
InitPrune == Init \/ InitPruneApi

\* one call of removeUnreachableStates: on dfa the first time, on the
\* Automaton the previous call returned afterwards
Prune ==
    /\ \/ mode = "prune" /\ pc = "prune"
       \/ mode = "regex" /\ pc = "done"
    /\ Len(opt) < MaxPrunes
    /\ LET r == SubsetConstructionRemoveUnreachableStates(
                    heap, IF opt = <<>> THEN dfa ELSE opt[Len(opt)])
       IN heap' = r.h /\ opt' = Append(opt, r.A)
    /\ UNCHANGED <<mode, pc, regex, postfix, pos, stack, nfa, dfa, det, hop, minDFA,
                   err, sim>>

NextPrune ==
    \/ Parse
    \/ BuildStep
    \/ BuildFinish
    \/ ConvertStart
    \/ ConvertStep
    \/ ConvertFinish
    \/ MinimizeStart
    \/ RefineStep
    \/ MinimizeFinish
    \/ Prune

SpecPrune == InitPrune /\ [][NextPrune]_vars

-----------------------------------------------------------------------------
(* The work-list loops run to their end: the program is sequential, a loop
   whose condition holds makes its next iteration *)

\* minimize on a DFA over the single symbol "a", built through the API
InitUnary ==
    /\ \E n \in 1..MaxDfaStates :
         \E acc \in [1..n -> BOOLEAN] :
           \E next \in [0..(n - 1) -> 0..n] :
              LET delta == [q \in (0..(n - 1)) \X Sigma |->
                               IF q[2] = "a" THEN next[q[1]] ELSE n]
                  d == MakeDFA(acc, delta)
              IN heap = d.h /\ dfa = d.A
    /\ mode = "dfa" /\ pc = "minimize"
    /\ regex = <<>> /\ postfix = <<>> /\ pos = 0 /\ stack = <<>>
    /\ nfa = NoAutomaton /\ minDFA = NoAutomaton
    /\ det = NewSubsetConstruction /\ hop = NewHopcroftMinimization
    /\ err = NoError
    /\ sim = NoSimulation
    /\ opt = <<>>

InitTerm == Init \/ InitUnary

\* the condition of convertToDFA's while loop
PendingLeft == pc = "subsets" /\ Len(det.pending) > 0

\* Weak fairness of the two loops' iterations.  That of ConvertStep is
\* written out, []<>~ENABLED <<A>>_vars \/ []<><<A>>_vars, with the loop
\* condition for ENABLED <<ConvertStep>>_vars: an iteration always changes
\* det.pending.
SpecTerm ==
    /\ InitTerm /\ [][Next]_vars
    /\ WF_vars(RefineStep)
    /\ ([]<>(~PendingLeft) \/ []<><<ConvertStep>>_vars)

-----------------------------------------------------------------------------
(* Properties *)

\* C1: for every regex compiled with convert + buildNFA + convertToDFA and
\* every word w over the regex's alphabet, the NFA and the DFA agree on w.
C1_NFAandDFAAgree ==
    (mode = "regex" /\ pc = "minimize") =>
        \A w \in WordsOver(nfa) : accepts(heap, nfa, w) = accepts(heap, dfa, w)

\* C2: for every DFA d given to minimize (also one with missing
\* transitions) and every word w, minimize(d) and d agree on w.
C2_MinimizePreservesLanguage ==
    (mode = "dfa" /\ pc = "done") =>
        \A w \in Words : accepts(heap, minDFA, w) = accepts(heap, dfa, w)

\* C3: for every well-formed postfix expression, the NFA built by buildNFA and
\* run with simulateNFA accepts w exactly when w is in the language of the
\* expression (A+ one or more, A? zero or one, A* zero or more).
C3_ThompsonNFARecognizesLanguage ==
    (mode = "postfix" /\ WellFormedPostfix(postfix)) =>
        /\ pc # "failed"
        /\ pc = "done" =>
              \A w \in Words : simulateNFA(heap, nfa, w) <=> w \in Language(postfix)

\* C3 witness: buildNFA returned for an expression using a binary and a unary
\* operator, whose NFA accepts some words and rejects others.
C3_Witness ==
    /\ mode = "postfix" /\ pc = "done"
    /\ Range(postfix) \cap {"|", "."} # {}
    /\ Range(postfix) \cap {"*", "+", "?"} # {}
    /\ \E w \in Words : Len(w) >= 3 /\ simulateNFA(heap, nfa, w)
    /\ \E w \in Words : ~simulateNFA(heap, nfa, w)

\* C4: for "(a|b)*abb" the automaton returned by minimize has exactly 4
\* states, accepts "abb" and "aabb" and rejects "ab" and "abab".
C4_ABstarABBScenario ==
    (mode = "regex" /\ pc = "done" /\ regex = RegexABstarABB) =>
        /\ Len(minDFA.states) = 4
        /\ accepts(heap, minDFA, Word_abb)
        /\ accepts(heap, minDFA, Word_aabb)
        /\ ~accepts(heap, minDFA, Word_ab)
        /\ ~accepts(heap, minDFA, Word_abab)

\* what the three automata of a finished pipeline run answer on a word
AllThree(w, expected) ==
    /\ accepts(heap, nfa, w) = expected
    /\ accepts(heap, dfa, w) = expected
    /\ accepts(heap, minDFA, w) = expected

\* C5: for "a", "a|b" and "a*b+" each of NFA, DFA and MinDFA gives the listed
\* results; for "a" the postfix is "a" and the NFA has 2 states.
C5_SmallScenarios ==
    (mode = "regex" /\ pc = "done") =>
        /\ regex = RegexA =>
              /\ postfix = <<"a">>
              /\ Len(nfa.states) = 2
              /\ AllThree(<<"a">>, TRUE)
              /\ AllThree(<<>>, FALSE)
              /\ AllThree(<<"a", "a">>, FALSE)
        /\ regex = RegexAorB =>
              /\ AllThree(<<"a">>, TRUE)
              /\ AllThree(<<"b">>, TRUE)
        /\ regex = RegexAstarBplus =>
              /\ AllThree(<<>>, FALSE)
              /\ AllThree(<<"b">>, TRUE)
              /\ AllThree(Word_aaabbb, TRUE)
              /\ AllThree(Word_ba, FALSE)

\* an automaton is deterministic: none of its states has two targets for one
\* symbol, none has an epsilon transition
Deterministic(h, A) ==
    \A s \in ObjectsOf(h, A) :
        /\ h[s].epsilonTransitions = {}
        /\ \A i \in 1..Len(h[s].transitions) : Len(h[s].transitions[i].targets) <= 1

\* C6: in every automaton returned by convertToDFA and by minimize, no state
\* has more than one target state for the same symbol, and no state has
\* epsilon transitions.
C6_DFAsAreDeterministic ==
    /\ (mode = "regex" /\ pc \in {"minimize", "refine", "done"}) => Deterministic(heap, dfa)
    /\ (mode = "regex" /\ pc = "done") => Deterministic(heap, minDFA)

\* C6 witness: a finished pipeline run whose NFA is not deterministic (a state
\* with an epsilon transition, two states answering the same symbol) and whose
\* DFA and MinDFA have several states and transitions on both symbols.
C6_Witness ==
    /\ mode = "regex" /\ pc = "done"
    /\ \E s \in ObjectsOf(heap, nfa) : heap[s].epsilonTransitions # {}
    /\ Len(dfa.states) >= 3
    /\ Len(minDFA.states) >= 2
    /\ \A a \in Sigma : \E s \in ObjectsOf(heap, minDFA) : getTransitions(heap[s], a) # <<>>

\* C7: for every regex run through the pipeline, counting the entries of each
\* automaton's state collection, |MinDFA| <= |DFA| <= 2^|NFA|.
C7_SizeBounds ==
    (mode = "regex" /\ pc = "done") =>
        /\ Len(minDFA.states) <= Len(dfa.states)
        /\ Len(dfa.states) <= Pow2(Len(nfa.states))

\* C8: in every NFA returned by buildNFA, no two distinct states among the
\* start state and the states reachable from it have the same id.
C8_ReachableIdsDistinct ==
    (mode = "postfix" /\ pc = "done") =>
        \A s, t \in Reach(heap, {nfa.startState}) : s # t => heap[s].id # heap[t].id

\* the start state, the accept states and the targets of the transitions of
\* an automaton are the entries of its own collection under their ids
OwnsItsStates(h, A) ==
    LET targets == UNION {h[s].epsilonTransitions \cup Range(AllTargets(h[s].transitions))
                          : s \in ObjectsOf(h, A)}
    IN \A s \in {A.startState} \cup A.acceptStates \cup targets :
          s # Null /\ getState(A, h[s].id) = s

\* C9: in every automaton produced by buildNFA, convertToDFA and minimize, the
\* start state, every accept state and every target of every transition is a
\* member of the automaton's own state collection: getState(s.id) is s.
C9_StatesAreOwned ==
    /\ (mode = "regex" /\ pc \in {"convert", "subsets", "minimize", "refine", "done"})
          => OwnsItsStates(heap, nfa)
    /\ (mode = "regex" /\ pc \in {"minimize", "refine", "done"}) => OwnsItsStates(heap, dfa)
    /\ (mode = "regex" /\ pc = "done") => OwnsItsStates(heap, minDFA)

\* the symbols that label a transition of a state of an automaton
Labels(h, A) ==
    UNION {{h[s].transitions[i].symbol : i \in 1..Len(h[s].transitions)}
           : s \in ObjectsOf(h, A)}

\* C10: after any sequence of createState, addTransition and Thompson
\* compositions (the epsilon marker among the operands), the alphabet of every
\* automaton contains neither the epsilon marker nor the empty string, and
\* every symbol other than those that labels one of its transitions is in it.
C10_AlphabetWithoutEpsilon ==
    mode = "api" =>
        \A i \in 1..Len(stack) :
            /\ epsilonSymbol \notin Range(stack[i].alphabet)
            /\ "" \notin Range(stack[i].alphabet)
            /\ Labels(heap, stack[i]) \ {epsilonSymbol, ""} \subseteq Range(stack[i].alphabet)

\* C10 witness: an automaton that went through a composition and through
\* addTransition with the epsilon marker or the empty string, with a labelled
\* transition and an epsilon transition among its states.
C10_Witness ==
    /\ mode = "api" /\ pos >= 3
    /\ \E i \in 1..Len(stack) :
          /\ Len(stack[i].alphabet) >= 1
          /\ Labels(heap, stack[i]) # {}
          /\ Cardinality(ObjectsOf(heap, stack[i])) >= 3
          /\ \E s \in ObjectsOf(heap, stack[i]) : heap[s].epsilonTransitions # {}

\* a list of partitions is stable for a DFA: for every partition and every
\* symbol, either no state of the partition has a transition on the symbol,
\* or every one has and all the targets lie in one partition
StablePartitions(h, D, partitions) ==
    \A i \in 1..Len(partitions) : \A a \in Range(getAlphabet(D)) :
        LET P == Range(partitions[i])
        IN \/ \A s \in P : getTransitions(h[s], a) = <<>>
           \/ /\ \A s \in P : getTransitions(h[s], a) # <<>>
              /\ \E j \in 1..Len(partitions) :
                    \A s \in P : Range(getTransitions(h[s], a)) \subseteq Range(partitions[j])

\* C11: when refinePartitions has emptied the work list the partitions are
\* stable, so that buildMinimalDFA does not depend on the representative.
C11_FinalPartitionsStable ==
    (mode = "dfa" /\ pc = "refine" /\ Len(hop.workList) = 0) =>
        StablePartitions(heap, hop.reachableDFA, hop.partitions)

\* the words a DFA accepts when started in state s
AcceptedFrom(h, D, s) == {w \in Words : simulateDFA(h, [D EXCEPT !.startState = s], w)}

\* C12: two reachable states of the DFA given to minimize end in the same
\* final partition exactly when they accept the same words, and the MinDFA
\* has as many states as there are classes of reachable states.
C12_PartitionsAreMyhillNerode ==
    (mode = "dfa" /\ pc = "done" /\ Len(hop.partitions) > 0) =>
        LET D == hop.reachableDFA
            R == StateObjects(D)
        IN /\ \A s, t \in R :
                (hop.stateToPartition[s] = hop.stateToPartition[t])
                    <=> (AcceptedFrom(heap, D, s) = AcceptedFrom(heap, D, t))
           /\ Len(minDFA.states) = Cardinality({AcceptedFrom(heap, D, s) : s \in R})

\* the states of a DFA reachable from its start state
ReachableStates(h, D) == Reach(h, {D.startState})

\* the reachable states of a DFA are pairwise distinguishable
PairwiseDistinguishable(h, D) ==
    \A s, t \in ReachableStates(h, D) :
        s # t => AcceptedFrom(h, D, s) # AcceptedFrom(h, D, t)

\* f is an isomorphism from the reachable part of D onto M
IsIsomorphism(h, D, M, f) ==
    LET R == ReachableStates(h, D)
    IN /\ \A s, t \in R : s # t => f[s] # f[t]
       /\ {f[s] : s \in R} = StateObjects(M)
       /\ f[D.startState] = M.startState
       /\ \A s \in R :
             /\ h[f[s]].isAccepting = h[s].isAccepting
             /\ \A a \in Range(getAlphabet(D)) \cup Range(getAlphabet(M)) :
                   LET ts == getTransitions(h[s], a)
                       tm == getTransitions(h[f[s]], a)
                   IN /\ Len(tm) = Len(ts)
                      /\ \A k \in 1..Len(ts) : tm[k] = f[ts[k]]

\* C13: minimize applied to a DFA whose reachable states are pairwise
\* distinguishable returns an automaton with as many states and a bijection
\* of the states that keeps the start state, the accepting flags and the
\* transitions.
C13_MinimalIsFixedPoint ==
    (mode = "dfa" /\ pc = "done" /\ PairwiseDistinguishable(heap, dfa)) =>
        /\ Len(minDFA.states) = Cardinality(ReachableStates(heap, dfa))
        /\ \E f \in [ReachableStates(heap, dfa) -> StateObjects(minDFA)] :
              IsIsomorphism(heap, dfa, minDFA, f)

\* minimize returned the very object it was given: removeUnreachableStates
\* returned its argument and minimize returned that
MinimizeReturnedInput ==
    pc = "done" /\ hop.same /\ Len(hop.reachableDFA.states) <= 1

\* the State objects of an automaton are the same before and after a step
ObjectsUnchanged(A) == \A s \in ObjectsOf(heap, A) : heap'[s] = heap[s]

\* C14: convertToDFA and minimize leave their input automaton unchanged (type
\* tag, state collection, accepting flags, start state, transitions) and
\* return an object other than their input.
C14_StagesLeaveInputUnchanged ==
    [][/\ pc \in {"convert", "subsets"} => (nfa' = nfa /\ ObjectsUnchanged(nfa))
       /\ pc \in {"minimize", "refine"} => (dfa' = dfa /\ ObjectsUnchanged(dfa))
       /\ (pc \in {"minimize", "refine"} /\ pc' = "done") => ~MinimizeReturnedInput']_vars

\* C15: convertToDFA and convertWithSteps called with an automaton not tagged
\* 'NFA', and minimize and minimizeWithSteps called with one not tagged 'DFA',
\* report an error and return no automaton; every automaton a minimizer entry
\* point returns is tagged 'MinDFA'.
C15_EntryPointsCheckTypes ==
    [][/\ (mode \in ConvertEntries /\ pc = "convert" /\ nfa.type # "NFA")
            => (pc' = "failed" /\ err' # NoError /\ dfa' = NoAutomaton)
       /\ (mode \in MinimizeEntries /\ pc = "minimize" /\ dfa.type # "DFA")
            => (pc' = "failed" /\ err' # NoError /\ minDFA' = NoAutomaton)
       /\ (mode \in MinimizeEntries /\ pc # "done" /\ pc' = "done")
            => minDFA'.type = "MinDFA"]_vars

\* opening minus closing parentheses among the first i characters
RECURSIVE Depth(_, _)
Depth(r, i) ==
    IF i = 0 THEN 0
    ELSE Depth(r, i - 1) + (IF r[i] = "(" THEN 1 ELSE IF r[i] = ")" THEN -1 ELSE 0)

\* some ')' closes nothing, or some '(' is still open at the end
UnmatchedParenthesis(r) ==
    \/ \E i \in 1..Len(r) : Depth(r, i) < 0
    \/ Depth(r, Len(r)) > 0

\* the expression starts or ends with the binary operator '|'
AlternationAtAnEnd(r) == Len(r) > 0 /\ (r[1] = "|" \/ r[Len(r)] = "|")

\* C16: convert returns success = false and postfix = null, never a postfix
\* string, for every regex with an unmatched ')', an unmatched '(' or a
\* leading or trailing '|'.
C16_ConvertRejectsMalformed ==
    (mode = "parse" /\ pc # "parse"
       /\ (UnmatchedParenthesis(regex) \/ AlternationAtAnEnd(regex))) =>
        /\ pc = "failed" /\ err = "ParseError" /\ postfix = <<>>
        /\ ~convert(regex).success
        /\ convert(regex).postfixIsNull

\* C16 witness: convert has failed on an expression whose parentheses are
\* balanced and whose only defect is a trailing '|'.
C16_Witness ==
    /\ mode = "parse" /\ pc = "failed"
    /\ Len(regex) >= 3
    /\ ~UnmatchedParenthesis(regex)
    /\ regex[Len(regex)] = "|" /\ regex[1] \in Sigma
    /\ \A i \in 1..(Len(regex) - 1) : regex[i] \in Sigma \cup {"*"}

\* the characters the input format knows: symbols, operators, parentheses,
\* the epsilon marker (and the concatenation operator of the implementation)
RecognizedChars == Sigma \cup {"|", "*", "+", "?", "(", ")", ".", epsilonSymbol}

\* C17: convert fails for every regex that contains an unrecognized character
\* and never emits such a character as an operand of the postfix.
C17_UnrecognizedCharacterRejected ==
    (mode = "parse" /\ pc # "parse") =>
        /\ (Range(regex) \ RecognizedChars # {}) => (pc = "failed" /\ ~convert(regex).success)
        /\ Range(postfix) \subseteq RecognizedChars

\* C18: whenever convert reports success, buildNFA on the returned postfix
\* completes: no operator lacks its operands and exactly one fragment is
\* left on the stack.
C18_ParsedPostfixBuilds ==
    (mode = "regex" /\ pc = "failed") => err = "ParseError"

\* the number of fragments on buildNFA's stack after the first i characters of
\* a postfix, or -1 when an operator among them found too few fragments
RECURSIVE Fragments(_, _)
Fragments(p, i) ==
    IF i = 0 THEN 0
    ELSE LET n == Fragments(p, i - 1)
         IN IF n < 0 THEN -1
            ELSE IF p[i] \in {"*", "+", "?"} THEN (IF n < 1 THEN -1 ELSE n)
            ELSE IF p[i] \in {"|", "."} THEN (IF n < 2 THEN -1 ELSE n - 1)
            ELSE n + 1

\* C19: buildNFA throws and returns no automaton for every postfix in which an
\* operator is reached with too few fragments on the stack or whose scan
\* leaves zero or more than one fragment; an automaton it returns is tagged
\* 'NFA'.
C19_BuildNFARejectsMalformedPostfix ==
    (mode = "postfix" /\ pc \in {"done", "failed"}) =>
        /\ Fragments(postfix, Len(postfix)) # 1 =>
              (pc = "failed" /\ err # NoError /\ nfa = NoAutomaton)
        /\ pc = "done" => (nfa # NoAutomaton /\ nfa.type = "NFA")

\* C19 witness: buildNFA has thrown at a binary operator reached with one
\* fragment on the stack, the fragment a unary operator has built.
C19_Witness ==
    /\ mode = "postfix" /\ pc = "failed" /\ nfa = NoAutomaton
    /\ Len(postfix) >= 3
    /\ postfix[1] \in Sigma /\ postfix[2] = "?" /\ postfix[3] \in {"|", "."}
    /\ pos = 2 /\ Len(stack) = 1

(* The parse tree of an expression under the rules of the input format,
   written in postfix:
       Alt  ::= Cat ('|' Cat)*        loosest, grouping to the left
       Cat  ::= Rep Rep*              grouping to the left
       Rep  ::= Atom ('*'|'+'|'?')*   each operator applied in the order written
       Atom ::= operand | '(' Alt ')'
   Each operator returns whether it parsed, the postfix of what it parsed and
   the position after it. *)
Operands == Sigma \cup {epsilonSymbol}
UnaryMarks == {"*", "+", "?"}
NoParse == [ok |-> FALSE, out |-> <<>>, next |-> 0]

RECURSIVE ParseAlt(_, _), AltRest(_, _), ParseCat(_, _), CatRest(_, _)
RECURSIVE ParseRep(_, _), RepRest(_, _), ParseAtom(_, _)

ParseAtom(r, i) ==
    IF i > Len(r) THEN NoParse
    ELSE IF r[i] \in Operands THEN [ok |-> TRUE, out |-> <<r[i]>>, next |-> i + 1]
    ELSE IF r[i] = "("
    THEN LET a == ParseAlt(r, i + 1)
         IN IF a.ok /\ a.next <= Len(r) /\ r[a.next] = ")"
            THEN [a EXCEPT !.next = a.next + 1]
            ELSE NoParse
    ELSE NoParse

RepRest(r, res) ==
    IF res.next <= Len(r) /\ r[res.next] \in UnaryMarks
    THEN RepRest(r, [ok |-> TRUE, out |-> Append(res.out, r[res.next]),
                     next |-> res.next + 1])
    ELSE res

ParseRep(r, i) ==
    LET a == ParseAtom(r, i) IN IF a.ok THEN RepRest(r, a) ELSE NoParse

CatRest(r, res) ==
    IF res.next <= Len(r) /\ r[res.next] \in Operands \cup {"("}
    THEN LET b == ParseRep(r, res.next)
         IN IF b.ok
            THEN CatRest(r, [ok |-> TRUE, out |-> Append(res.out \o b.out, "."),
                             next |-> b.next])
            ELSE NoParse
    ELSE res

ParseCat(r, i) ==
    LET a == ParseRep(r, i) IN IF a.ok THEN CatRest(r, a) ELSE NoParse

AltRest(r, res) ==
    IF res.next <= Len(r) /\ r[res.next] = "|"
    THEN LET b == ParseCat(r, res.next + 1)
         IN IF b.ok
            THEN AltRest(r, [ok |-> TRUE, out |-> Append(res.out \o b.out, "|"),
                             next |-> b.next])
            ELSE NoParse
    ELSE res

ParseAlt(r, i) ==
    LET a == ParseCat(r, i) IN IF a.ok THEN AltRest(r, a) ELSE NoParse

ValidRegex(r) ==
    Len(r) > 0 /\ ParseAlt(r, 1).ok /\ ParseAlt(r, 1).next = Len(r) + 1

ReferencePostfix(r) == ParseAlt(r, 1).out

\* the concatenation insertion rule of the input format
RECURSIVE ReferenceInsertFrom(_, _)
ReferenceInsertFrom(r, i) ==
    IF i > Len(r) THEN <<>>
    ELSE IF /\ i < Len(r)
            /\ r[i] \in Operands \cup {")"} \cup UnaryMarks
            /\ r[i + 1] \in Operands \cup {"("}
         THEN <<r[i], ".">> \o ReferenceInsertFrom(r, i + 1)
         ELSE <<r[i]>> \o ReferenceInsertFrom(r, i + 1)

\* C20: for every valid regex the '.' operators are inserted by the insertion
\* rule and the postfix of infixToPostfix is the parse tree of the infix:
\* alternation loosest, then concatenation, then the unary operators, '|' and
\* '.' grouping to the left, consecutive unary operators in the order written.
C20_PostfixIsParseTree ==
    (mode = "parse" /\ pc # "parse" /\ ValidRegex(regex)) =>
        /\ pc = "build"
        /\ preprocess(regex) = ReferenceInsertFrom(regex, 1)
        /\ infixToPostfix(regex).ok
        /\ infixToPostfix(regex).postfix = ReferencePostfix(regex)
        /\ postfix = ReferencePostfix(regex)

\* the automaton an export record describes, run on a word: states are the
\* exported ids, moves follow the {from, symbol, to} records
RECURSIVE RecordClosure(_, _)
RecordClosure(data, ids) ==
    LET more == ids \cup {t.to : t \in {u \in data.TRANSICIONES :
                                     u.from \in ids /\ u.symbol = epsilonSymbol}}
    IN IF more = ids THEN ids ELSE RecordClosure(data, more)

RECURSIVE RecordRun(_, _, _)
RecordRun(data, ids, w) ==
    IF w = <<>> THEN ids
    ELSE RecordRun(data,
                   RecordClosure(data, {t.to : t \in {u \in data.TRANSICIONES :
                                            u.from \in ids /\ u.symbol = Head(w)}}),
                   Tail(w))

RecordAccepts(data, w) ==
    /\ data.INICIO # NullId
    /\ RecordRun(data, RecordClosure(data, {data.INICIO}), w) \cap data.ACEPTACION # {}

\* C21: the automaton rebuilt from the export record of the NFA, and the
\* walk simularAutomata makes over the export record of the DFA and of the
\* MinDFA, accept exactly the strings Automaton.accepts accepts on the
\* original.
C21_ExportRoundTrip ==
    (mode = "regex" /\ pc = "done") =>
        \A w \in Words :
            /\ RecordAccepts(export(heap, nfa), w) <=> accepts(heap, nfa, w)
            /\ simularAutomata(export(heap, dfa), w) <=> accepts(heap, dfa, w)
            /\ simularAutomata(export(heap, minDFA), w) <=> accepts(heap, minDFA, w)

\* the walk of a deterministic automaton from State s over w: the State
\* reached, Null when some symbol has no transition
RECURSIVE Walk(_, _, _)
Walk(h, s, w) ==
    IF w = <<>> THEN s
    ELSE IF \E t \in 1..Len(h) : t \in Range(getTransitions(h[s], Head(w)))
    THEN Walk(h, CHOOSE t \in 1..Len(h) : t \in Range(getTransitions(h[s], Head(w))),
              Tail(w))
    ELSE Null

\* the number of symbols of w the walk from s consumes before it ends or
\* finds no transition
RECURSIVE Consumed(_, _, _)
Consumed(h, s, w) ==
    IF w = <<>> \/ Walk(h, s, <<Head(w)>>) = Null THEN 0
    ELSE 1 + Consumed(h, Walk(h, s, <<Head(w)>>), Tail(w))

\* C22: simulateDFA returns accepted = true exactly when every symbol of the
\* input has a transition along the walk from the start state and the state
\* reached is accepting; for the empty input the result is the start state's
\* flag; at the first symbol without a transition (a symbol outside the
\* alphabet included) it stops consuming and returns accepted = false, a
\* normal result.
C22_SimulateDFAWalk ==
    (sim.phase = "returned" /\ sim.which \in {"dfa", "minDFA"}) =>
        LET A == SimAutomaton
            end == Walk(heap, A.startState, sim.input)
            n == Consumed(heap, A.startState, sim.input)
        IN /\ sim.accepted <=> (end # Null /\ heap[end].isAccepting)
           /\ sim.input = <<>> => (sim.accepted <=> heap[A.startState].isAccepting)
           /\ sim.i = n
           /\ n < Len(sim.input) =>
                 /\ ~sim.accepted
                 /\ sim.steps[Len(sim.steps)].symbol = sim.input[n + 1]
                 /\ sim.steps[Len(sim.steps)].action = "Rechazada - No hay transicion"
           /\ Range(sim.input) \ Range(getAlphabet(A)) # {} => ~sim.accepted
           /\ err = NoError

\* C22 witness: simulateDFA has returned accepted = false at a symbol outside
\* the alphabet after consuming two symbols, and its state then is accepting.
C22_Witness ==
    /\ sim.phase = "returned" /\ sim.which = "minDFA" /\ ~sim.accepted
    /\ sim.i = 2 /\ Len(sim.input) = 4
    /\ sim.input[3] = OutsideSymbol
    /\ heap[sim.currentState].isAccepting

\* the ids of a set of State objects
IdsOf(h, S) == {h[s].id : s \in S}

\* the suffix of the input that follows its first i symbols
Remaining(input, i) == [k \in 1..(Len(input) - i) |-> input[i + k]]

C24_ReadmeStateCounts ==
    (mode = "regex" /\ pc = "done") =>
        /\ regex = RegexReadmeCase1 =>
              /\ postfix = <<"b", "b", "|", "*", "a", ".", "b", ".", "b", ".",
                             "a", "b", "|", "*", ".">>
              /\ Len(nfa.states) = 18
              /\ Len(dfa.states) = 5
              /\ Len(minDFA.states) = 4
        /\ regex = RegexReadmeCase2 =>
              /\ postfix = <<"a", "*", "b", "+", ".">>
              /\ Len(nfa.states) = 8
              /\ Len(dfa.states) = 3
              /\ Len(minDFA.states) = 3

\* C25: every DFA state convertToDFA has created is accepting exactly when
\* the set of NFA states it stands for holds an accepting state of the NFA,
\* and the DFA start state stands for the epsilon-closure of the NFA start
\* state.
C25_AcceptingIffSubsetAccepts ==
    (mode = "regex" /\ pc \in {"subsets", "minimize"}) =>
        /\ \A e \in det.idToStateSet :
              /\ StatesHas(dfa, e.id)
              /\ heap[getState(dfa, e.id)].isAccepting
                    <=> (e.set \cap nfa.acceptStates # {})
        /\ \E e \in det.idToStateSet :
              /\ e.id = heap[dfa.startState].id
              /\ e.set = epsilonClosure(heap, {nfa.startState})

\* the subsets of NFA states convertToDFA reaches: the epsilon-closure of the
\* start state and the closures of the moves from a reached subset
RECURSIVE ReachedSubsets(_, _, _)
ReachedSubsets(h, N, found) ==
    LET moved == {epsilonClosure(h, move(h, S, a)) :
                     S \in found, a \in Range(getAlphabet(N))}
        more == found \cup (moved \ {{}})
    IN IF more = found THEN found ELSE ReachedSubsets(h, N, more)

\* C26: when convertToDFA returns, the reached subsets of NFA states and the
\* DFA states correspond one to one: two different subsets have different
\* canonical keys, every subset has its own DFA state, and every DFA state
\* stands for one subset.
C26_SubsetsAndStatesOneToOne ==
    (mode = "regex" /\ pc = "minimize") =>
        LET subsets == ReachedSubsets(heap, nfa, {epsilonClosure(heap, {nfa.startState})})
        IN /\ \A S, T \in subsets :
                 stateSetToString(heap, S) = stateSetToString(heap, T) => S = T
           /\ \A S \in subsets : \E e \in det.idToStateSet : e.set = S
           /\ \A e \in det.idToStateSet : e.set \in subsets
           /\ \A e, f \in det.idToStateSet : e.id = f.id => e.set = f.set
           /\ Cardinality(subsets) = Len(dfa.states)

\* the entries a step of refinePartitions has appended to the work list
PushedEntries == SubSeq(hop'.workList, Len(hop.workList), Len(hop'.workList))

\* the blocks a step of refinePartitions has created
NewBlocks == Range(hop'.partitions) \ Range(hop.partitions)

\* C27: when split divides a partition, the work list receives, for every
\* symbol, one entry that denotes each of the two new blocks in the updated
\* list of partitions; and every entry taken from the work list is in range,
\* so that it is processed as a splitter and not skipped.
C27_SplitEnqueuesNewBlocks ==
    [][(mode = "dfa" /\ pc = "refine" /\ Len(hop.workList) > 0) =>
          /\ Head(hop.workList).partition < Len(hop.partitions)
          /\ \A k \in 1..Len(PushedEntries) :
                /\ PushedEntries[k].partition < Len(hop'.partitions)
                /\ hop'.partitions[PushedEntries[k].partition + 1] \in NewBlocks
          /\ \A Q \in NewBlocks : \A a \in Range(getAlphabet(hop.reachableDFA)) :
                \E k \in 1..Len(PushedEntries) :
                    /\ PushedEntries[k].symbol = a
                    /\ PushedEntries[k].partition < Len(hop'.partitions)
                    /\ hop'.partitions[PushedEntries[k].partition + 1] = Q]_vars

\* C28: between initializePartitions and the end of refinePartitions the list
\* of partitions is a partition of the DFA's state set (blocks non-empty,
\* pairwise disjoint, covering every state), no block mixes accepting and
\* non-accepting states, and stateToPartition maps every state to the index of
\* its block.
C28_PartitionsPartitionTheStates ==
    (mode = "dfa" /\ pc = "refine") =>
        LET P == hop.partitions
            Q == StateObjects(hop.reachableDFA)
        IN /\ \A i \in 1..Len(P) :
                 /\ Len(P[i]) > 0
                 /\ \A j, k \in 1..Len(P[i]) : P[i][j] = P[i][k] => j = k
                 /\ \A s, t \in Range(P[i]) : heap[s].isAccepting = heap[t].isAccepting
           /\ \A i, j \in 1..Len(P) : i # j => Range(P[i]) \cap Range(P[j]) = {}
           /\ UNION {Range(P[i]) : i \in 1..Len(P)} = Q
           /\ DOMAIN hop.stateToPartition = Q
           /\ \A s \in Q : /\ hop.stateToPartition[s] \in 0..(Len(P) - 1)
                           /\ s \in Range(P[hop.stateToPartition[s] + 1])

\* C28 witness: split has divided a block, and refinePartitions has not
\* ended.
C28_Witness ==
    /\ mode = "dfa" /\ pc = "refine"
    /\ Len(hop.partitions) = 3
    /\ Len(hop.workList) > 0
    /\ \E s, t \in StateObjects(hop.reachableDFA) :
          /\ heap[s].isAccepting = heap[t].isAccepting
          /\ hop.stateToPartition[s] # hop.stateToPartition[t]

\* C29: both work-list loops end.  convertToDFA's pending queue becomes empty
\* and then every DFA state created is reachable from the DFA start state;
\* refinePartitions' workList becomes empty; an iteration of refinePartitions
\* that does not shorten the workList has divided a partition, and there are
\* never more partitions than states.
C29_WorklistLoopsTerminate ==
    /\ (pc = "subsets") ~>
           (/\ pc = "subsets" /\ Len(det.pending) = 0
            /\ StateObjects(dfa) \subseteq Reach(heap, {dfa.startState}))
    /\ (pc = "refine") ~> (pc = "refine" /\ Len(hop.workList) = 0)
    /\ [](pc = "refine" => Len(hop.partitions) <= Len(hop.reachableDFA.states))
    /\ [][(pc = "refine" /\ Len(hop.workList) > 0
              /\ Len(hop'.workList) >= Len(hop.workList))
             => Len(hop'.partitions) > Len(hop.partitions)]_vars

\* C29 witness: refinePartitions has ended after it divided a partition, and
\* so after it took from the workList entries that split had pushed.
C29_Witness ==
    /\ mode = "dfa" /\ pc = "done"
    /\ Len(hop.workList) = 0
    /\ Len(hop.partitions) = 3

\* C30: every Automaton SubsetConstruction.removeUnreachableStates returns,
\* on a DFA with or without NFA origin ids and on its own output, is a new
\* DFA with exactly one state per state reachable from the start state of
\* the input, all of them reachable, and it accepts the same words
C30_PruneKeepsReachableStatesAndLanguage ==
    \A i \in 1..Len(opt) :
        /\ StateObjects(opt[i]) \cap StateObjects(dfa) = {}
        /\ Cardinality(StateObjects(opt[i])) =
               Cardinality(Reach(heap, {dfa.startState}))
        /\ StateObjects(opt[i]) \subseteq Reach(heap, {opt[i].startState})
        /\ \A w \in Words : accepts(heap, opt[i], w) = accepts(heap, dfa, w)

====
